---- MODULE Spec2Model ----
(***************************************************************************)
(* A model of RoomBrain (src/src/brains/Brain_Room.ts): the task           *)
(* assignment engine (getTasks, getMostUrgentTask, assignTask), the        *)
(* equilibrium calculators and the spawn scheduler                         *)
(* (handleSpawnOperations and its stages).                                 *)
(***************************************************************************)
EXTENDS Integers, Sequences, FiniteSets, TLC

VARIABLES
    room,          \* the territory snapshot the brain reads (this.room)
    creeps,        \* creep name -> the creep's role, body, load and position
    targetedBy,    \* target id -> names of the creeps committed to it
    maxPerTarget,  \* task name -> Task.maxPerTarget of that task class
    roles,         \* role name -> the role's settings (its body pattern)
    calls,         \* assignTask calls made so far in this cycle
    last,          \* what the latest assignTask call computed and returned
    hauler,        \* calculateHaulerRequirements: its inputs and its result
    spawnOp,       \* handleSpawnOperations: phase, call log and result
    listing,       \* the getTasks calls made on this snapshot, in order
    handling       \* one call of a spawn handler: its name and its response

vars ==
    <<room, creeps, targetedBy, maxPerTarget, roles, calls, last, hauler, spawnOp,
      listing, handling>>

\* ---------------------------------------------------------------- bounds
MaxAssigns == 2   \* assignTask calls of one cycle
MaxCap == 2       \* largest Task.maxPerTarget tried
MaxPathLength == 150   \* longest path from a source to storage tried
MaxListings == 2       \* getTasks calls on one snapshot

\* ------------------------------------------------------------- utilities
Abs(n) == IF n < 0 THEN -n ELSE n
Max2(a, b) == IF a > b THEN a ELSE b
Min2(a, b) == IF a < b THEN a ELSE b
CeilDiv(a, b) == (a + b - 1) \div b
\* the number Infinity: above every count and size a snapshot holds
Infinity == 1000000
\* the undersized workers kept on record for a room under incubation: the
\* code counts the full-size ones only, so more of them change no decision
MaxSent == 6
None == [name |-> "none"]

RECURSIVE SumSeq(_)
\* _.sum
SumSeq(s) == IF s = <<>> THEN 0 ELSE Head(s) + SumSeq(Tail(s))

\* _.sortBy(s, key): ascending by key, equal keys keep their order; keyOf is
\* the key of each element, in the order of s. The element at index i lands
\* behind every element with a smaller key and every earlier element with the
\* same key.
sortBy(s, keyOf) ==
    LET Rank(i) == 1 + Cardinality({j \in 1..Len(s) :
                        \/ keyOf[j] < keyOf[i]
                        \/ (keyOf[j] = keyOf[i] /\ j < i)})
    IN [r \in 1..Len(s) |-> s[CHOOSE i \in 1..Len(s) : Rank(i) = r]]

\* ------------------------------------------------ RoomBrain configuration
\* this.settings as the constructor builds it (normal profile)
normalSettings ==
    [ fortifyLevel |-> IF room.controller.exists
                       THEN Min2(10 ^ Max2(room.controller.level, 3), 1000000)
                       ELSE 1000000,
      workerPatternRepetitionLimit |-> 30,
      maxWorkersPerRoom |-> 1,
      incubationWorkersToSend |-> 3,
      supplierPatternRepetitionLimit |-> 4,
      haulerPatternRepetitionLimit |-> 7,
      remoteHaulerPatternRepetitionLimit |-> 8,
      minersPerSource |-> 1,
      storageBuffer |-> [linker |-> 75000, worker |-> 50000,
                         upgrader |-> 75000, default |-> 0],
      unloadStorageBuffer |-> 750000,
      reserveBuffer |-> 3000,
      maxAssistLifetimePercentage |-> 10 ]  \* 0.1, in percent

\* this.incubatingSettings
incubatingSettings ==
    [ fortifyLevel |-> 10000,
      workerPatternRepetitionLimit |-> 10,
      maxWorkersPerRoom |-> 3,
      supplierPatternRepetitionLimit |-> 4,
      haulerPatternRepetitionLimit |-> 7,
      remoteHaulerPatternRepetitionLimit |-> 8,
      minersPerSource |-> 1,
      storageBuffer |-> [worker |-> 1000, upgrader |-> 5000, default |-> 0],
      reserveBuffer |-> 3000 ]

\* this.incubating: a claimAndIncubate flag stands in the room
incubating == room.incubateFlagInRoom

\* this.settings after the constructor: replaced wholesale when incubating
settings ==
    IF incubating THEN incubatingSettings ELSE normalSettings

\* this.override.fortifyLevel: no room is listed
overrideFortifyLevel == [r \in {} |-> 0]

taskPriorities ==
    << "supplyTowers", "supply", "pickup", "collect", "repair", "build",
       "buildRoads", "fortify", "upgrade" >>

Categories == {taskPriorities[i] : i \in 1..Len(taskPriorities)}

upgradeRolesAtLevel8 == {"upgrader"}

upgradeRoles ==
    IF room.controller.exists /\ room.controller.level = 8
    THEN upgradeRolesAtLevel8
    ELSE {"worker", "upgrader"}

\* the roles with pickup open to suppliers and haulers, as the comment of
\* the pickup entry has it
assignmentRolesWithPickup(taskType) ==
    CASE taskType = "pickup" -> {"supplier", "hauler"}
      [] taskType = "collect" -> {"hauler"}
      [] taskType = "supplyTowers" -> {"supplier", "hauler"}
      [] taskType = "supply" -> {"supplier", "hauler"}
      [] taskType = "repair" -> {"worker", "miner", "guard"}
      [] taskType = "build" -> {"worker", "miner"}
      [] taskType = "buildRoads" -> {"worker", "guard"}
      [] taskType = "fortify" -> {"worker"}
      [] taskType = "upgrade" -> upgradeRoles

assignmentRoles(taskType) ==
    CASE taskType = "pickup" -> {}
      [] taskType = "collect" -> {"hauler"}
      [] taskType = "supplyTowers" -> {"supplier", "hauler"}
      [] taskType = "supply" -> {"supplier", "hauler"}
      [] taskType = "repair" -> {"worker", "miner", "guard"}
      [] taskType = "build" -> {"worker", "miner"}
      [] taskType = "buildRoads" -> {"worker", "guard"}
      [] taskType = "fortify" -> {"worker"}
      [] taskType = "upgrade" -> upgradeRoles

assignmentConditions(taskType, creep) ==
    CASE taskType \in {"pickup", "collect"} ->
             creep.carryParts > 0 /\ creep.energy < creep.carryCapacity
      [] taskType \in {"supplyTowers", "supply"} ->
             creep.carryParts > 0 /\ creep.energy > 0
      [] taskType \in {"repair", "build", "buildRoads", "fortify", "upgrade"} ->
             creep.workParts > 0 /\ creep.energy > 0

\* the name each task class gives its tasks (Task subclasses' constructors)
taskName(taskType) ==
    CASE taskType = "pickup" -> "pickup"
      [] taskType = "collect" -> "recharge"
      [] taskType \in {"supplyTowers", "supply"} -> "supply"
      [] taskType = "repair" -> "repair"
      [] taskType \in {"build", "buildRoads"} -> "build"
      [] taskType = "fortify" -> "fortify"
      [] taskType = "upgrade" -> "upgrade"

\* new taskX(target): the task's name, its target and its class's cap
newTask(taskType, target) ==
    [ name |-> taskName(taskType), target |-> target,
      maxPerTarget |-> maxPerTarget[taskName(taskType)] ]

\* --------------------------------------------------------------- getTasks
\* the repair filter without the 70% rule for containers and roads
isRepairTargetAnyDamage(s) == s.hits < s.hitsMax

isRepairTarget(s) ==
    /\ s.hits < s.hitsMax
    /\ (s.structureType # "container" \/ 10 * s.hits < 7 * s.hitsMax)
    /\ (s.structureType # "road" \/ 10 * s.hits < 7 * s.hitsMax)

fortifyLevel ==
    IF room.name \in DOMAIN overrideFortifyLevel
    THEN overrideFortifyLevel[room.name]
    ELSE settings.fortifyLevel

isPickupTarget(drop) == drop.amount > 100
isCollectTarget(container) == container.energy > 1000
isSupplyTarget(s) == s.energy < s.energyCapacity
isFortifyTarget(s) == s.hits < fortifyLevel

getTargets(taskType) ==
    CASE taskType = "pickup" -> SelectSeq(room.droppedEnergy, isPickupTarget)
      [] taskType = "collect" -> SelectSeq(room.containers, isCollectTarget)
      [] taskType = "supplyTowers" -> SelectSeq(room.towers, isSupplyTarget)
      [] taskType = "supply" -> SelectSeq(room.sinks, isSupplyTarget)
      [] taskType = "repair" -> SelectSeq(room.repairables, isRepairTarget)
      [] taskType = "build" -> room.structureSites
      [] taskType = "buildRoads" -> room.roadSites
      [] taskType = "fortify" -> SelectSeq(room.barriers, isFortifyTarget)
      [] taskType = "upgrade" ->
             IF room.controller.exists /\ room.controller.my
             THEN <<room.controller>> ELSE <<>>
      [] OTHER -> <<>>

\* a catalog that hands a category out once: a later call for it is empty
getTasksOnce(taskType) ==
    LET targets == getTargets(taskType)
    IN IF \E k \in 1..Len(listing) : listing[k].taskType = taskType
       THEN <<>>
       ELSE [i \in 1..Len(targets) |-> newTask(taskType, targets[i])]

getTasks(taskType) ==
    LET targets == getTargets(taskType)
    IN [i \in 1..Len(targets) |-> newTask(taskType, targets[i])]

\* one call of getTasks: it reads the room and builds new tasks, and assigns
\* to nothing of the room or of the targets
GetTasks(taskType) ==
    /\ Len(listing) < MaxListings
    /\ listing' = Append(listing, [taskType |-> taskType, tasks |-> getTasks(taskType)])
    /\ UNCHANGED <<room, creeps, targetedBy, maxPerTarget, roles, calls, last, hauler,
                   spawnOp, handling>>

\* ------------------------------------------------------ getMostUrgentTask
\* the cap test off by one: a target at its cap still passes
isUncappedOffByOne(task) ==
    Cardinality(targetedBy[task.target.id]) <= task.maxPerTarget

\* task.target.targetedBy.length < task.maxPerTarget
isUncapped(task) == Cardinality(targetedBy[task.target.id]) < task.maxPerTarget

\* the cap filter left out
uncappedTasksUnfiltered(taskType) == getTasks(taskType)

uncappedTasks(taskType) == SelectSeq(getTasks(taskType), isUncapped)

RECURSIVE getMostUrgentTaskNoReturn(_)
\* the loop does not return on the first hit: the last category with
\* candidates wins
getMostUrgentTaskNoReturn(tasksToGet) ==
    IF tasksToGet = <<>> THEN <<>>
    ELSE LET later == getMostUrgentTaskNoReturn(Tail(tasksToGet))
         IN IF Len(later) > 0 THEN later ELSE uncappedTasks(Head(tasksToGet))

RECURSIVE getMostUrgentTask(_)
getMostUrgentTask(tasksToGet) ==
    IF tasksToGet = <<>> THEN <<>>
    ELSE LET tasks == uncappedTasks(Head(tasksToGet))
         IN IF Len(tasks) > 0 THEN tasks
            ELSE getMostUrgentTask(Tail(tasksToGet))

\* ------------------------------------------------------------- assignTask
\* the role test and the capability test joined by "or"
isApplicableEither(creep, taskType) ==
    \/ creep.role \in assignmentRoles(taskType)
    \/ assignmentConditions(taskType, creep)

isApplicable(creep, taskType) ==
    /\ creep.role \in assignmentRoles(taskType)
    /\ assignmentConditions(taskType, creep)

applicableTasks(creep) ==
    LET Applies(taskType) == isApplicable(creep, taskType)
    IN SelectSeq(taskPriorities, Applies)

\* creep.pos.getRangeTo(target): the larger of the two coordinate distances
getRangeTo(pos, target) ==
    Max2(Abs(pos[1] - target.pos[1]), Abs(pos[2] - target.pos[2]))

fortifyChoice(tasks) ==
    sortBy(tasks, [i \in 1..Len(tasks) |-> tasks[i].target.hits])[1]

\* the sort read from the wrong end: the farthest candidate
closestChoiceReversed(creep, tasks) ==
    sortBy(tasks, [i \in 1..Len(tasks) |->
                      getRangeTo(creep.pos, tasks[i].target)])[Len(tasks)]

closestChoice(creep, tasks) ==
    sortBy(tasks, [i \in 1..Len(tasks) |->
                      getRangeTo(creep.pos, tasks[i].target)])[1]

\* the fortify branch left out
chooseTaskNoFortifyBranch(creep, tasks) ==
    IF creep.inRoom THEN closestChoice(creep, tasks) ELSE tasks[1]

\* the task assignTask picks among the candidates of the chosen category
chooseTask(creep, tasks) ==
    IF tasks[1].name = "fortify" THEN fortifyChoice(tasks)
    ELSE IF creep.inRoom THEN closestChoice(creep, tasks)
    ELSE tasks[1]

\* creep.assign(task): the creep leaves its former target and is committed
\* to the task's target
assign(c, task) ==
    [t \in DOMAIN targetedBy |->
        IF t = task.target.id THEN targetedBy[t] \cup {c}
        ELSE targetedBy[t] \ {c}]

AssignTask(c) ==
    /\ calls < MaxAssigns
    /\ calls' = calls + 1
    /\ LET creep == creeps[c]
           applicable == applicableTasks(creep)
           tasks == getMostUrgentTask(applicable)
       IN IF Len(tasks) > 0
          THEN LET task == chooseTask(creep, tasks)
               IN /\ targetedBy' = assign(c, task)
                  /\ last' = [ creep |-> c, applicable |-> applicable,
                               tasks |-> tasks, task |-> task,
                               before |-> targetedBy, ret |-> task.name ]
          ELSE /\ targetedBy' = targetedBy
               /\ last' = [ creep |-> c, applicable |-> applicable,
                            tasks |-> tasks, task |-> None,
                            before |-> targetedBy, ret |-> "" ]
    /\ UNCHANGED <<room, creeps, maxPerTarget, roles, hauler, spawnOp, listing, handling>>

\* what creep.assign may do with a task whose target no longer exists: commit
\* the creep all the same, or refuse and commit nothing
AssignOutcomes == {"commits", "refuses"}

\* assignTask when some listed targets cease to exist after getMostUrgentTask
\* has listed them and before creep.assign is called: lines 249-264 test
\* tasks.length and the chosen task only, so the choice is made as before,
\* creep.assign is called once with the chosen task, and its result returned
AssignTaskStale(c) ==
    /\ calls < MaxAssigns
    /\ calls' = calls + 1
    /\ LET creep == creeps[c]
           applicable == applicableTasks(creep)
           tasks == getMostUrgentTask(applicable)
       IN IF Len(tasks) > 0
          THEN \E gone \in SUBSET {tasks[i].target.id : i \in 1..Len(tasks)} :
               \E outcome \in AssignOutcomes :
                  LET task == chooseTask(creep, tasks)
                      refused == task.target.id \in gone /\ outcome = "refuses"
                  IN /\ targetedBy' = IF refused THEN targetedBy ELSE assign(c, task)
                     /\ last' = [ creep |-> c, applicable |-> applicable,
                                  tasks |-> tasks, task |-> task,
                                  before |-> targetedBy,
                                  ret |-> IF refused THEN "refused" ELSE task.name,
                                  gone |-> gone ]
          ELSE /\ targetedBy' = targetedBy
               /\ last' = [ creep |-> c, applicable |-> applicable,
                            tasks |-> tasks, task |-> None,
                            before |-> targetedBy, ret |-> "", gone |-> {} ]
    /\ UNCHANGED <<room, creeps, maxPerTarget, roles, hauler, spawnOp, listing, handling>>

\* ------------------------------------------------ equilibrium calculators
\* a spawn of any kind counts, spawning or not
hasSpawnBusyOrNot == Len(room.spawns) > 0

\* this.spawn: the first spawn of the room that is not spawning, if any
hasSpawn == \E i \in 1..Len(room.spawns) : ~room.spawns[i].spawning

\* BODYPART_COST of the parts the patterns use
partCost(part) ==
    CASE part = "carry" -> 50 [] part = "move" -> 50 [] part = "work" -> 100

\* spawn.cost(bodyPattern)
cost(bodyPattern) == SumSeq([i \in 1..Len(bodyPattern) |-> partCost(bodyPattern[i])])

carryPartsPerRepetition(bodyPattern) ==
    Cardinality({i \in 1..Len(bodyPattern) : bodyPattern[i] = "carry"})

\* Math.ceil of the double nearest n / d. The quotient is a product of doubles;
\* when it is a whole number exactly, the rounding error of the product can
\* leave the double just above it, and Math.ceil then gives one more: both
\* results are possible.
ceilOfProduct(n, d) ==
    IF n % d = 0 THEN {n \div d, (n \div d) + 1} ELSE {CeilDiv(n, d)}

\* calculateHaulerSize: Math.ceil(1.1 * (10 / (50 * carryParts / tripLength)))
\* with tripLength = 2 * pathLengthToStorage, i.e. ceil(11 * trip / (50 * carry))
calculateHaulerSize(target) ==
    LET haulerBodyPattern == roles.hauler.bodyPattern
        tripLength == 2 * target.pathLengthToStorage
        energyPerTripPerRepetition == 50 * carryPartsPerRepetition(haulerBodyPattern)
    IN ceilOfProduct(11 * tripLength, energyPerTripPerRepetition)

\* maxHaulerSize = Math.min(Math.floor(energyCapacityAvailable / cost),
\* 50 / pattern.length), kept as the fraction num / den: 50 / length is not
\* rounded
maxHaulerSize ==
    LET haulerBodyPattern == roles.hauler.bodyPattern
        affordable == room.energyCapacityAvailable \div cost(haulerBodyPattern)
    IN IF affordable * Len(haulerBodyPattern) <= 50
       THEN [num |-> affordable, den |-> 1]
       ELSE [num |-> 50, den |-> Len(haulerBodyPattern)]

\* the split as the spec words it: every hauler of the split has the maximum size
splitHaulersAtMaxSize(haulerSize, max) ==
    IF haulerSize * max.den > max.num
    THEN { <<CeilDiv(max.num, max.den), CeilDiv(haulerSize * max.den, max.num)>> }
    ELSE { <<haulerSize, 1>> }

\* lines 339-344: [haulerSize, numHaulers] for a required size and a maximum.
\* numHaulers = haulerSize / max is a fraction when the size is chopped:
\* max * (numHaulers / ceil(numHaulers)) = haulerSize / ceil(numHaulers).
splitHaulers(haulerSize, max) ==
    IF haulerSize * max.den > max.num
    THEN LET numHaulers == CeilDiv(haulerSize * max.den, max.num)
         IN { <<size, numHaulers>> :
                size \in IF haulerSize % numHaulers = 0
                            /\ (haulerSize \div numHaulers) * max.den < max.num
                         THEN ceilOfProduct(haulerSize, numHaulers)
                         ELSE {CeilDiv(haulerSize, numHaulers)} }
    ELSE { <<haulerSize, 1>> }

\* calculateHaulerRequirements(target) once calculateHaulerSize(target) has
\* returned haulerSize: the possible [haulerSize, numHaulers]
haulerRequirementsGiven(target, haulerSize) ==
    IF hasSpawn /\ room.storage.exists
    THEN IF target.linked /\ room.storage.linked
         THEN { <<0, 0>> }
         ELSE splitHaulers(haulerSize, maxHaulerSize)
    ELSE { <<0, 0>> }

calculateHaulerRequirements(target) ==
    UNION { haulerRequirementsGiven(target, haulerSize) :
              haulerSize \in calculateHaulerSize(target) }

\* one call of calculateHaulerRequirements on a source of the room
CalculateHaulerRequirements(i) ==
    /\ hauler.phase = "input"
    /\ \E haulerSize \in calculateHaulerSize(room.sources[i]) :
       \E out \in haulerRequirementsGiven(room.sources[i], haulerSize) :
          hauler' = [ phase |-> "done", source |-> i, required |-> haulerSize,
                      max |-> maxHaulerSize, out |-> out ]
    /\ UNCHANGED <<room, creeps, targetedBy, maxPerTarget, roles, calls, last, spawnOp, listing, handling>>

\* --------------------------------------------------- worker requirements
workerSize ==
    Min2(room.energyCapacityAvailable \div cost(roles.worker.bodyPattern),
         settings.workerPatternRepetitionLimit)

\* calculateWorkerRequirementsByEnergy: ceil(0.8 * 10 * sources / equilibrium)
\* with equilibrium = workerSize, or workerSize / 1.5 without storage
\* a workerSize of 0 makes the quotient, and Math.ceil of it, Infinity
calculateWorkerRequirementsByEnergy ==
    IF hasSpawn
    THEN IF workerSize = 0 THEN Infinity
         ELSE IF room.storage.exists
         THEN CeilDiv(8 * Len(room.sources), workerSize)
         ELSE CeilDiv(12 * Len(room.sources), workerSize)
    ELSE 0

\* the repair jobs without the roads
isRepairJobNoRoads(s) == s.hits < s.hitsMax /\ s.structureType # "road"

isRepairJob(s) ==
    s.hits < s.hitsMax /\ (s.structureType # "road" \/ 2 * s.hits < s.hitsMax)

\* calculateWorkerRequirementsByJobs without the cap of maxWorkersPerRoom
calculateWorkerRequirementsByJobsUncapped ==
    LET numRepairJobs == Len(SelectSeq(room.repairables, isRepairJob))
        numConstructionJobs == Len(getTasks("build")) + Len(getTasks("buildRoads"))
        numFortifyJobs == Len(getTasks("fortify"))
        numJobs == numRepairJobs + numConstructionJobs + numFortifyJobs
    IN IF numJobs = 0 THEN 0
       ELSE IF workerSize = 0 THEN Infinity
       ELSE CeilDiv(2 * numJobs, workerSize)

\* a workerSize of 0 makes (2 / workerSize) * numJobs Infinity, and the
\* minimum of it and maxWorkersPerRoom is maxWorkersPerRoom
calculateWorkerRequirementsByJobs ==
    LET numRepairJobs == Len(SelectSeq(room.repairables, isRepairJob))
        numConstructionJobs == Len(getTasks("build")) + Len(getTasks("buildRoads"))
        numFortifyJobs == Len(getTasks("fortify"))
        numJobs == numRepairJobs + numConstructionJobs + numFortifyJobs
    IN IF numJobs = 0 THEN 0
       ELSE IF workerSize = 0 THEN settings.maxWorkersPerRoom
       ELSE Min2(CeilDiv(2 * numJobs, workerSize), settings.maxWorkersPerRoom)

\* flagCodes.industry.remoteMine.filter
isRemoteMineFlag(flag) == flag.kind = "remoteMine"

\* calculateRemoteHaulingRequirements, times ten: haulingNeeded * 1.2
calculateRemoteHaulingRequirementsTimes10 ==
    LET miningFlags == SelectSeq(room.assignedFlags, isRemoteMineFlag)
    IN 12 * SumSeq([i \in 1..Len(miningFlags) |-> miningFlags[i].haulingNeeded])

\* ------------------------------------------------------ spawn handlers
null == [kind |-> "null"]
renewing == [kind |-> "string",
             text |-> "renewing (renew call is done through task_getRenewed.work)"]

\* role.create(spawn, {assignment, workRoom, patternRepetitionLimit})
create(role, assignment, workRoom, patternRepetitionLimit) ==
    [ kind |-> "creep", role |-> role, assignment |-> assignment,
      workRoom |-> workRoom, patternRepetitionLimit |-> patternRepetitionLimit,
      renewMe |-> FALSE ]

\* creep.memory.data.renewMe = true
renewable(creep) == [creep EXCEPT !.renewMe = TRUE]

RECURSIVE minersFor(_, _)
\* the miner for the first source with too few miners, if any
minersFor(sources, workRoom) ==
    IF sources = <<>> THEN null
    ELSE IF Head(sources).assigned.miner < settings.minersPerSource
         THEN create("miner", Head(sources).id, workRoom, 3)
         ELSE minersFor(Tail(sources), workRoom)

\* handleMiners without the test of this.incubating
handleMinersWhileIncubating == minersFor(room.sources, room.name)

handleMiners == IF ~incubating THEN minersFor(room.sources, room.name) ELSE null

needsHaulers(s) == ~s.linked \/ ~room.storage.linked

RECURSIVE haulersFor(_)
\* the possible results of the loop of handleHaulers over the sources
haulersFor(sources) ==
    IF sources = <<>> THEN {null}
    ELSE UNION { IF Head(sources).assigned.hauler < req[2]
                 THEN {create("hauler", Head(sources).id, room.name, req[1])}
                 ELSE haulersFor(Tail(sources)) :
                 req \in calculateHaulerRequirements(Head(sources)) }

handleHaulers ==
    IF room.storage.exists
    THEN haulersFor(SelectSeq(room.sources, needsHaulers))
    ELSE {null}

handleLinkers ==
    IF room.storage.exists /\ room.storage.linked /\ room.storage.assigned.linker < 1
    THEN create("linker", room.storage.id, room.name, 8)
    ELSE null

handleMineralSuppliers ==
    IF room.terminal.exists /\ room.labs > 0
       /\ room.terminal.assigned.mineralSupplier < 1
    THEN create("mineralSupplier", room.terminal.id, room.name, 1)
    ELSE null

\* flagCodes.millitary, .destroy, .industry and .territory filters
isExpensiveFlag(flag) ==
    flag.group \in {"millitary", "destroy", "industry", "territory"}

\* handleSuppliers asking for one energy consumer instead of more than one
handleSuppliersAnyConsumer ==
    LET numSuppliers == room.controller.assigned.supplier
        numEnergySinks == Len(room.sinks) + Len(room.towers)
        expensiveFlags == SelectSeq(room.assignedFlags, isExpensiveFlag)
        supplierLimit == 2 + (Len(expensiveFlags) \div 10)
        supplierSize == IF numSuppliers = 0 THEN 1
                        ELSE settings.supplierPatternRepetitionLimit
    IN IF numEnergySinks > 0 /\ numSuppliers < supplierLimit
       THEN create("supplier", room.controller.id, room.name, supplierSize)
       ELSE null

handleSuppliers ==
    LET numSuppliers == room.controller.assigned.supplier
        numEnergySinks == Len(room.sinks) + Len(room.towers)
        expensiveFlags == SelectSeq(room.assignedFlags, isExpensiveFlag)
        supplierLimit == 2 + (Len(expensiveFlags) \div 10)
        supplierSize == IF numSuppliers = 0 THEN 1
                        ELSE settings.supplierPatternRepetitionLimit
    IN IF numEnergySinks > 1 /\ numSuppliers < supplierLimit
       THEN create("supplier", room.controller.id, room.name, supplierSize)
       ELSE null

\* handleWorkers with the worker sized by the calculator's workerSize
\* instead of the configured repetition limit
handleWorkersOfWorkerSize ==
    IF ~incubating
    THEN LET numWorkers == room.controller.assigned.worker
             workerRequirements ==
                 IF room.storage.exists THEN calculateWorkerRequirementsByJobs
                 ELSE calculateWorkerRequirementsByEnergy
         IN IF numWorkers < workerRequirements /\ room.storageUnits > 0
            THEN create("worker", room.controller.id, room.name, workerSize)
            ELSE null
    ELSE null

\* handleWorkers taking the requirement from the income calculator alone
handleWorkersByEnergy ==
    IF ~incubating
    THEN LET numWorkers == room.controller.assigned.worker
             workerRequirements == calculateWorkerRequirementsByEnergy
         IN IF numWorkers < workerRequirements /\ room.storageUnits > 0
            THEN create("worker", room.controller.id, room.name,
                        settings.workerPatternRepetitionLimit)
            ELSE null
    ELSE null

handleWorkers ==
    IF ~incubating
    THEN LET numWorkers == room.controller.assigned.worker
             workerRequirements ==
                 IF room.storage.exists THEN calculateWorkerRequirementsByJobs
                 ELSE calculateWorkerRequirementsByEnergy
         IN IF numWorkers < workerRequirements /\ room.storageUnits > 0
            THEN create("worker", room.controller.id, room.name,
                        settings.workerPatternRepetitionLimit)
            ELSE null
    ELSE null

\* handleUpgraders without the cap of 3 at controller level 8
handleUpgradersUncapped ==
    IF room.storage.exists
    THEN LET numUpgraders == room.controller.assigned.upgrader
             amountOver == Max2(room.storage.energy - settings.storageBuffer.upgrader, 0)
             upgraderSize == 1 + (amountOver \div 20000)
             numUpgradersNeeded ==
                 CeilDiv(upgraderSize * cost(roles.upgrader.bodyPattern),
                         room.energyCapacityAvailable)
         IN IF numUpgraders < numUpgradersNeeded
            THEN create("upgrader", room.controller.id, room.name, upgraderSize)
            ELSE null
    ELSE null

handleUpgraders ==
    IF room.storage.exists
    THEN LET numUpgraders == room.controller.assigned.upgrader
             amountOver == Max2(room.storage.energy - settings.storageBuffer.upgrader, 0)
             size == 1 + (amountOver \div 20000)
             upgraderSize == IF room.controller.level = 8 THEN Min2(size, 3) ELSE size
             numUpgradersNeeded ==
                 CeilDiv(upgraderSize * cost(roles.upgrader.bodyPattern),
                         room.energyCapacityAvailable)
         IN IF numUpgraders < numUpgradersNeeded
            THEN create("upgrader", room.controller.id, room.name, upgraderSize)
            ELSE null
    ELSE null

\* handleRemoteHaulers asking for a hauler also when supply equals demand
handleRemoteHaulersAtDemand ==
    IF room.storage.exists
    THEN LET haulingSupplied == SumSeq(room.storage.assigned.hauler)
         IN IF 10 * haulingSupplied <= calculateRemoteHaulingRequirementsTimes10
            THEN create("hauler", room.storage.id, room.name, Infinity)
            ELSE null
    ELSE null

handleRemoteHaulers ==
    IF room.storage.exists
    THEN LET haulingSupplied == SumSeq(room.storage.assigned.hauler)
         IN IF 10 * haulingSupplied < calculateRemoteHaulingRequirementsTimes10
            THEN create("hauler", room.storage.id, room.name, Infinity)
            ELSE null
    ELSE null

\* ------------------------------------------------------- spawn stages
\* A stage returns its response and the calls it made, in order.
called(op, stage) == [op |-> op, stage |-> stage]

\* the domestic handlers with the workers consulted before the miners
prioritizedDomesticOperationsWorkersEarly ==
    << "handleSuppliers", "handleLinkers", "handleMineralSuppliers",
       "handleWorkers", "handleMiners", "handleHaulers", "handleUpgraders" >>

prioritizedDomesticOperations ==
    << "handleSuppliers", "handleLinkers", "handleMineralSuppliers",
       "handleMiners", "handleHaulers", "handleWorkers", "handleUpgraders" >>

\* the handler of that name; haulers is what handleHaulers returns in this call
domesticOperation(name, haulers) ==
    CASE name = "handleSuppliers" -> handleSuppliers
      [] name = "handleLinkers" -> handleLinkers
      [] name = "handleMineralSuppliers" -> handleMineralSuppliers
      [] name = "handleMiners" -> handleMiners
      [] name = "handleHaulers" -> haulers
      [] name = "handleWorkers" -> handleWorkers
      [] name = "handleUpgraders" -> handleUpgraders

\* one pass of a loop over handlers: the response of the handler if it has
\* one, else what the remaining passes give; call is the call of this pass
respondOrContinue(call, handleResponse, rest) ==
    IF handleResponse # null
    THEN [response |-> handleResponse, calls |-> <<call>>]
    ELSE [response |-> rest.response, calls |-> <<call>> \o rest.calls]

RECURSIVE firstDomesticResponse(_, _)
firstDomesticResponse(handlers, haulers) ==
    IF handlers = <<>> THEN [response |-> null, calls |-> <<>>]
    ELSE respondOrContinue(called(Head(handlers), "handleCoreSpawnOperations"),
                           domesticOperation(Head(handlers), haulers),
                           firstDomesticResponse(Tail(handlers), haulers))

\* this.spawn.pos.findInRange(FIND_MY_CREEPS, 1, ...): within range 1
nearSpawn(creep) == creep.rangeToSpawn <= 1

\* the filter of the search: creep.memory.data.renewMe && ticksToLive < 500
needsRenewal(creep) == creep.renewMe /\ creep.ticksToLive < 500

creepsNeedingRenewal == SelectSeq(SelectSeq(room.myCreeps, nearSpawn), needsRenewal)

\* handleCoreSpawnOperations without its renewal step
renewOrNullWithoutRenewal(domestic) == domestic

\* after the loop over the domestic handlers: the renewal marker when no
\* handler responded and some creep needs renewal
renewOrNull(domestic) ==
    IF domestic.response # null THEN domestic
    ELSE IF Len(creepsNeedingRenewal) > 0
         THEN [response |-> renewing, calls |-> domestic.calls]
         ELSE [response |-> null, calls |-> domestic.calls]

handleCoreSpawnOperations(haulers) ==
    renewOrNull(firstDomesticResponse(prioritizedDomesticOperations, haulers))

isIncubateFlag(flag) ==
    flag.kind = "claimAndIncubate" /\ flag.room.exists /\ flag.room.my

pathLength(flag) == flag.pathLengthToAssignedRoomStorage

\* _.sortBy(flags, flag => flag.pathLengthToAssignedRoomStorage)
sortByPathLength(flags) ==
    sortBy(flags, [i \in 1..Len(flags) |-> pathLength(flags[i])])

\* assigned workers of the flag's room that are of full incubation size
incubationWorkers(flag) ==
    Cardinality({i \in 1..Len(flag.room.workerBodyLengths) :
        flag.room.workerBodyLengths[i] >=
            Len(roles.worker.bodyPattern) * settings.workerPatternRepetitionLimit})

\* a worker is sent whatever the workers already assigned
sendsIncubationWorkerAlways(flag) == TRUE

\* incubationWorkers.length < this.settings.incubationWorkersToSend: false
\* when the settings in effect have no such field (undefined)
sendsIncubationWorker(flag) ==
    /\ "incubationWorkersToSend" \in DOMAIN settings
    /\ incubationWorkers(flag) < settings.incubationWorkersToSend

RECURSIVE incubateFirst(_)
incubateFirst(flags) ==
    IF flags = <<>> THEN [response |-> null, calls |-> <<>>]
    ELSE LET flag == Head(flags)
             miner == minersFor(flag.room.sources, flag.room.name)
             call == called(flag.id, "handleIncubationSpawnOperations")
         IN IF miner # null
            THEN [response |-> renewable(miner), calls |-> <<call>>]
            ELSE IF sendsIncubationWorker(flag)
            THEN [response |->
                     renewable(create("worker", flag.room.controllerId, flag.room.name,
                                      settings.workerPatternRepetitionLimit)),
                  calls |-> <<call>>]
            ELSE LET rest == incubateFirst(Tail(flags))
                 IN [response |-> rest.response, calls |-> <<call>> \o rest.calls]

handleIncubationSpawnOperations ==
    incubateFirst(sortByPathLength(SelectSeq(room.assignedFlags, isIncubateFlag)))

\* the flag kinds with the guards consulted first
prioritizedFlagOperationsGuardFirst ==
    << "guard", "stationary", "claimAndIncubate", "colony", "destroyer", "sieger",
       "remoteMine" >>

prioritizedFlagOperations ==
    << "stationary", "claimAndIncubate", "guard", "colony", "destroyer", "sieger",
       "remoteMine" >>

flagsOfKind(kind) ==
    LET IsKind(flag) == flag.kind = kind
    IN SelectSeq(room.assignedFlags, IsKind)

RECURSIVE firstFlagAction(_)
\* flag.action(this) on each flag in turn until one responds
firstFlagAction(flags) ==
    IF flags = <<>> THEN [response |-> null, calls |-> <<>>]
    ELSE respondOrContinue(called(Head(flags).id, "handleAssignedSpawnOperations"),
                           Head(flags).action,
                           firstFlagAction(Tail(flags)))

\* one pass of the loop over the flag kinds: here is what the flags of the
\* kind gave, rest what the remaining kinds give
flagsRespondOrContinue(here, rest) ==
    IF here.response # null THEN here
    ELSE [response |-> rest.response, calls |-> here.calls \o rest.calls]

RECURSIVE firstFlagOperation(_)
firstFlagOperation(kinds) ==
    IF kinds = <<>> THEN [response |-> null, calls |-> <<>>]
    ELSE flagsRespondOrContinue(
             firstFlagAction(sortByPathLength(flagsOfKind(Head(kinds)))),
             firstFlagOperation(Tail(kinds)))

handleAssignedSpawnOperations == firstFlagOperation(prioritizedFlagOperations)

handleInferredSpawnOperations ==
    [ response |-> handleRemoteHaulers,
      calls |-> <<called("handleRemoteHaulers", "handleInferredSpawnOperations")>> ]

\* the stages in another order: assigned flags before the incubation stage
prioritizedSpawnOperationsSwapped ==
    << "handleCoreSpawnOperations", "handleAssignedSpawnOperations",
       "handleIncubationSpawnOperations", "handleInferredSpawnOperations" >>

\* assistAssignedSpawnOperations is commented out of the list
prioritizedSpawnOperations ==
    << "handleCoreSpawnOperations", "handleIncubationSpawnOperations",
       "handleAssignedSpawnOperations", "handleInferredSpawnOperations" >>

spawnOperation(name, haulers) ==
    CASE name = "handleCoreSpawnOperations" -> handleCoreSpawnOperations(haulers)
      [] name = "handleIncubationSpawnOperations" -> handleIncubationSpawnOperations
      [] name = "handleAssignedSpawnOperations" -> handleAssignedSpawnOperations
      [] name = "handleInferredSpawnOperations" -> handleInferredSpawnOperations

\* this.spawn.createCreep(creep.body, creep.name, creep.memory): what it is
\* called with
\* A protoCreep has the three properties read; the renewal marker is a
\* string and has none of them, so all three arguments are undefined.
undefined == [kind |-> "undefined"]

createCreepArguments(creep) ==
    IF creep.kind = "creep"
    THEN << [of |-> "body", creep |-> creep], [of |-> "name", creep |-> creep],
            [of |-> "memory", creep |-> creep] >>
    ELSE << undefined, undefined, undefined >>

createCreep(creep) == [kind |-> "createCreep", arguments |-> createCreepArguments(creep)]

RECURSIVE spawnFirstEveryStage(_, _)
\* the loop without its return: every stage is run and every response is
\* handed to createCreep
spawnFirstEveryStage(operations, haulers) ==
    IF operations = <<>> THEN [ret |-> null, created |-> <<>>, calls |-> <<>>]
    ELSE LET stage == spawnOperation(Head(operations), haulers)
             call == called(Head(operations), "handleSpawnOperations")
             rest == spawnFirstEveryStage(Tail(operations), haulers)
         IN IF stage.response # null
            THEN [ret |-> createCreep(stage.response),
                  created |-> <<stage.response>> \o rest.created,
                  calls |-> <<call>> \o stage.calls \o rest.calls]
            ELSE [ret |-> rest.ret, created |-> rest.created,
                  calls |-> <<call>> \o stage.calls \o rest.calls]

\* one pass of the loop of handleSpawnOperations: a stage that responds is
\* handed to createCreep and the loop returns; rest is the remaining passes
spawnOrContinue(call, stage, rest) ==
    IF stage.response # null
    THEN [ret |-> createCreep(stage.response),
          created |-> <<stage.response>>,
          calls |-> <<call>> \o stage.calls]
    ELSE [ret |-> rest.ret, created |-> rest.created,
          calls |-> <<call>> \o stage.calls \o rest.calls]

RECURSIVE spawnFirst(_, _)
\* the loop of handleSpawnOperations over the stages
spawnFirst(operations, haulers) ==
    IF operations = <<>> THEN [ret |-> null, created |-> <<>>, calls |-> <<>>]
    ELSE spawnOrContinue(called(Head(operations), "handleSpawnOperations"),
                         spawnOperation(Head(operations), haulers),
                         spawnFirst(Tail(operations), haulers))

HandleSpawnOperations ==
    /\ spawnOp.phase = "idle"
    /\ IF hasSpawn
       THEN \E haulers \in handleHaulers :
               LET run == spawnFirst(prioritizedSpawnOperations, haulers)
               IN spawnOp' = [ phase |-> "done", ret |-> run.ret,
                              created |-> run.created, calls |-> run.calls,
                              haulers |-> haulers ]
       ELSE spawnOp' = [ phase |-> "done", ret |-> null, created |-> <<>>,
                         calls |-> <<>>, haulers |-> null ]
    /\ UNCHANGED <<room, creeps, targetedBy, maxPerTarget, roles, calls, last, hauler, listing, handling>>

\* one call of a domestic handler, made as handleCoreSpawnOperations makes it:
\* on a brain that has a spawn (line 665 guards the only call site)
DomesticHandler(name) ==
    /\ handling.phase = "idle"
    /\ hasSpawn
    /\ \E haulers \in handleHaulers :
           handling' = [ phase |-> "done", op |-> name,
                         response |-> domesticOperation(name, haulers),
                         calls |-> <<>>, haulers |-> haulers ]
    /\ UNCHANGED <<room, creeps, targetedBy, maxPerTarget, roles, calls, last, hauler,
                   spawnOp, listing>>

\* one call of handleCoreSpawnOperations
HandleCoreSpawnOperations ==
    /\ handling.phase = "idle"
    /\ hasSpawn
    /\ \E haulers \in handleHaulers :
           LET core == handleCoreSpawnOperations(haulers)
           IN handling' = [ phase |-> "done", op |-> "handleCoreSpawnOperations",
                            response |-> core.response, calls |-> core.calls,
                            haulers |-> haulers ]
    /\ UNCHANGED <<room, creeps, targetedBy, maxPerTarget, roles, calls, last, hauler,
                   spawnOp, listing>>

\* one call of calculateWorkerRequirementsByJobs, made as handleWorkers makes
\* it: on a brain that has a spawn
CalculateWorkerRequirementsByJobs ==
    /\ handling.phase = "idle"
    /\ hasSpawn
    /\ handling' = [ phase |-> "done", op |-> "calculateWorkerRequirementsByJobs",
                     response |-> [kind |-> "number",
                                   value |-> calculateWorkerRequirementsByJobs],
                     calls |-> <<>>, haulers |-> null ]
    /\ UNCHANGED <<room, creeps, targetedBy, maxPerTarget, roles, calls, last, hauler,
                   spawnOp, listing>>

\* one call of handleAssignedSpawnOperations, made as handleSpawnOperations
\* makes it: on a brain that has a spawn
HandleAssignedSpawnOperations ==
    /\ handling.phase = "idle"
    /\ hasSpawn
    /\ LET assigned == handleAssignedSpawnOperations
       IN handling' = [ phase |-> "done", op |-> "handleAssignedSpawnOperations",
                        response |-> assigned.response, calls |-> assigned.calls,
                        haulers |-> null ]
    /\ UNCHANGED <<room, creeps, targetedBy, maxPerTarget, roles, calls, last, hauler,
                   spawnOp, listing>>

\* one call of handleRemoteHaulers, made as handleInferredSpawnOperations
\* makes it: on a brain that has a spawn
HandleRemoteHaulers ==
    /\ handling.phase = "idle"
    /\ hasSpawn
    /\ handling' = [ phase |-> "done", op |-> "handleRemoteHaulers",
                     response |-> handleRemoteHaulers, calls |-> <<>>,
                     haulers |-> null ]
    /\ UNCHANGED <<room, creeps, targetedBy, maxPerTarget, roles, calls, last, hauler,
                   spawnOp, listing>>

\* one call of handleIncubationSpawnOperations, made as handleSpawnOperations
\* makes it: on a brain that has a spawn
HandleIncubationSpawnOperations ==
    /\ handling.phase = "idle"
    /\ hasSpawn
    /\ LET incubation == handleIncubationSpawnOperations
       IN handling' = [ phase |-> "done", op |-> "handleIncubationSpawnOperations",
                        response |-> incubation.response, calls |-> incubation.calls,
                        haulers |-> null ]
    /\ UNCHANGED <<room, creeps, targetedBy, maxPerTarget, roles, calls, last, hauler,
                   spawnOp, listing>>

\* ------------------------------------------------ a cycle and its actuation
\* the repetitions of the pattern a creep is built with: the limit asked
\* for, what the energy capacity pays for, and 50 body parts at most
bodyRepetitions(bodyPattern, limit) ==
    Min2(limit, Min2(room.energyCapacityAvailable \div cost(bodyPattern),
                     50 \div Len(bodyPattern)))

\* sources with one more creep of the role assigned to the source of that id
withAssigned(sources, id, role) ==
    [ i \in 1..Len(sources) |->
        IF sources[i].id = id
        THEN [ sources[i] EXCEPT !.assigned[role] = @ + 1 ]
        ELSE sources[i] ]

\* the room of a flag once the creep built for it is counted: a miner on its
\* source, a worker on its controller with the body it was built with
bootstrappedWith(fr, creep) ==
    IF creep.role = "miner"
    THEN [ fr EXCEPT !.sources = withAssigned(fr.sources, creep.assignment, "miner") ]
    ELSE IF Len(fr.workerBodyLengths) < MaxSent
    THEN [ fr EXCEPT !.workerBodyLengths =
             Append(@, Len(roles.worker.bodyPattern)
                         * bodyRepetitions(roles.worker.bodyPattern,
                                           creep.patternRepetitionLimit)) ]
    ELSE fr

\* the snapshot of the next cycle once the creep of a directive is counted as
\* assigned to its role and target; the renewal marker builds nothing
actuated(creep) ==
    IF creep.kind # "creep" THEN room
    ELSE IF creep.workRoom # room.name
    THEN [ room EXCEPT !.assignedFlags =
             [ i \in 1..Len(room.assignedFlags) |->
                 IF room.assignedFlags[i].room.exists
                    /\ room.assignedFlags[i].room.name = creep.workRoom
                 THEN [ room.assignedFlags[i] EXCEPT
                          !.room = bootstrappedWith(@, creep) ]
                 ELSE room.assignedFlags[i] ] ]
    ELSE IF creep.role \in {"supplier", "worker", "upgrader"}
    THEN [ room EXCEPT !.controller.assigned[creep.role] = @ + 1 ]
    ELSE IF creep.role = "linker"
    THEN [ room EXCEPT !.storage.assigned.linker = @ + 1 ]
    ELSE IF creep.role = "mineralSupplier"
    THEN [ room EXCEPT !.terminal.assigned.mineralSupplier = @ + 1 ]
    ELSE IF creep.role = "hauler" /\ room.storage.exists
            /\ creep.assignment = room.storage.id
    THEN [ room EXCEPT !.storage.assigned.hauler =
             Append(@, 50 * carryPartsPerRepetition(roles.hauler.bodyPattern)
                         * bodyRepetitions(roles.hauler.bodyPattern,
                                           creep.patternRepetitionLimit)) ]
    ELSE [ room EXCEPT !.sources = withAssigned(@, creep.assignment, creep.role) ]

\* one cycle: handleSpawnOperations on the snapshot, and the creep it asks
\* for counted in the snapshot of the next cycle; tick tells a cycle from the
\* one before it
Cycle ==
    /\ IF hasSpawn
       THEN \E haulers \in handleHaulers :
            \E run \in {spawnFirst(prioritizedSpawnOperations, haulers)} :
               /\ spawnOp' = [ phase |-> "done", ret |-> run.ret,
                               created |-> run.created, calls |-> run.calls,
                               haulers |-> haulers, tick |-> 1 - spawnOp.tick ]
               /\ room' = IF run.created = <<>> THEN room
                          ELSE actuated(run.created[1])
       ELSE /\ spawnOp' = [ phase |-> "done", ret |-> null, created |-> <<>>,
                            calls |-> <<>>, haulers |-> null,
                            tick |-> 1 - spawnOp.tick ]
            /\ room' = room
    /\ UNCHANGED <<creeps, targetedBy, maxPerTarget, roles, calls, last, hauler,
                   listing, handling>>

\* ------------------------------------------------------- the snapshots
TaskNames == {taskName(t) : t \in Categories}
OtherCreep == "other"   \* a creep of the room that is not in the crew

tower(e) == [id |-> "w1", energy |-> e, energyCapacity |-> 1000, pos |-> <<2, 2>>]
sink(i, e, p) == [id |-> i, energy |-> e, energyCapacity |-> 300, pos |-> p]
drop(a) == [id |-> "d1", amount |-> a, pos |-> <<3, 1>>]
container(e) == [id |-> "k1", energy |-> e, pos |-> <<4, 4>>]
road(h) == [id |-> "r1", structureType |-> "road", hits |-> h,
            hitsMax |-> 5000, pos |-> <<3, 3>>]
site(i, p) == [id |-> i, pos |-> p]
barrier(i, h, p) == [id |-> i, hits |-> h, pos |-> p]
noCreeps == [supplier |-> 0, worker |-> 0, upgrader |-> 0]
controller(lvl, mine) ==
    [id |-> "ctl", exists |-> TRUE, my |-> mine, level |-> lvl, pos |-> <<5, 1>>,
     assigned |-> noCreeps]
source(i, len, lnk, miners, haulers) ==
    [id |-> i, pathLengthToStorage |-> len, linked |-> lnk,
     assigned |-> [miner |-> miners, hauler |-> haulers]]
noStorage == [exists |-> FALSE]
storage(lnk, e, linkers, haulerCapacities) ==
    [exists |-> TRUE, id |-> "storage", linked |-> lnk, energy |-> e,
     assigned |-> [linker |-> linkers, hauler |-> haulerCapacities]]
noTerminal == [exists |-> FALSE]
terminal(mineralSuppliers) ==
    [exists |-> TRUE, id |-> "terminal",
     assigned |-> [mineralSupplier |-> mineralSuppliers]]
spawn(busy) == [id |-> "spawn1", spawning |-> busy]

\* the part of a snapshot the spawn scheduler and the calculators read
DefaultEconomy ==
    [ spawns |-> <<spawn(FALSE)>>, storage |-> noStorage, terminal |-> noTerminal,
      labs |-> 0, sources |-> <<source("src1", 20, FALSE, 1, 0)>>,
      storageUnits |-> 0, energyCapacityAvailable |-> 300,
      assignedFlags |-> <<>>, myCreeps |-> <<>> ]

defaultPatterns ==
    [ hauler |-> [bodyPattern |-> <<"carry", "carry", "move">>],
      worker |-> [bodyPattern |-> <<"work", "carry", "move">>],
      upgrader |-> [bodyPattern |-> <<"work", "work", "carry", "move">>] ]

barriers(hits) ==
    << barrier("x1", hits[1], <<1, 0>>), barrier("x2", hits[2], <<4, 0>>),
       barrier("x3", hits[3], <<6, 6>>) >>

TargetIds ==
    {"w1", "s1", "s2", "d1", "k1", "r1", "b1", "b2", "rs1", "x1", "x2", "x3", "ctl"}

\* the energy consumers and stores of a snapshot
SupplySides ==
    { [towers |-> <<tower(te)>>,
       sinks |-> <<sink("s1", se[1], <<6, 5>>), sink("s2", se[2], <<1, 1>>)>>,
       containers |-> <<container(ke)>>] :
      te \in {400, 1000}, se \in {<<300, 300>>, <<0, 300>>, <<0, 0>>},
      ke \in {500, 1500} }

\* the repair, construction, fortification and upgrade work of a snapshot
WorkSides ==
    { [repairables |-> <<road(rh)>>, structureSites |-> ss, roadSites |-> rs,
       barriers |-> barriers(bh), controller |-> controller(lvl, TRUE)] :
      rh \in {4000, 3000},
      ss \in {<<>>, <<site("b1", <<6, 6>>), site("b2", <<0, 1>>)>>},
      rs \in {<<>>, <<site("rs1", <<2, 5>>)>>},
      bh \in {<<500, 2000, 100>>, <<900, 300, 300>>, <<2000000, 2000000, 2000000>>},
      lvl \in {3, 8} }

DefaultSupplySide ==
    [towers |-> <<tower(1000)>>,
     sinks |-> <<sink("s1", 300, <<6, 5>>), sink("s2", 300, <<1, 1>>)>>,
     containers |-> <<container(500)>>]

DefaultWorkSide ==
    [repairables |-> <<road(5000)>>, structureSites |-> <<>>, roadSites |-> <<>>,
     barriers |-> barriers(<<2000000, 2000000, 2000000>>),
     controller |-> controller(3, TRUE)]

catalog(s, w) ==
    [ name |-> "W1N1", incubateFlagInRoom |-> FALSE,
      droppedEnergy |-> <<drop(150)>>,
      towers |-> s.towers, sinks |-> s.sinks, containers |-> s.containers,
      repairables |-> w.repairables, structureSites |-> w.structureSites,
      roadSites |-> w.roadSites, barriers |-> w.barriers,
      controller |-> w.controller ]

snapshot(s, w) == catalog(s, w) @@ DefaultEconomy

AssignRooms ==
    {snapshot(s, DefaultWorkSide) : s \in SupplySides}
        \cup {snapshot(DefaultSupplySide, w) : w \in WorkSides}

body(r, cp, wp, e, inr, p) ==
    [ role |-> r, carryParts |-> cp, workParts |-> wp, energy |-> e,
      carryCapacity |-> 50 * cp, inRoom |-> inr, pos |-> p ]

Crew ==
    [ sup  |-> body("supplier", 2, 0, 100, TRUE, <<0, 0>>),
      hauE |-> body("hauler", 2, 0, 0, TRUE, <<6, 6>>),
      hauH |-> body("hauler", 2, 0, 50, FALSE, <<9, 9>>),
      wrkA |-> body("worker", 1, 1, 50, TRUE, <<0, 0>>),
      wrkB |-> body("worker", 1, 1, 25, FALSE, <<9, 9>>),
      wrk0 |-> body("worker", 1, 1, 0, TRUE, <<3, 3>>),
      upg  |-> body("upgrader", 1, 1, 50, TRUE, <<5, 5>>),
      min  |-> body("miner", 1, 2, 50, TRUE, <<6, 6>>),
      grd  |-> body("guard", 1, 1, 50, TRUE, <<2, 4>>) ]

\* the commitments of other creeps when the cycle starts: none, or one creep
\* on the first-listed target of every category
InitialCommitments ==
    { [t \in TargetIds |-> {}],
      [t \in TargetIds |->
          IF t \in {"w1", "s1", "k1", "r1", "b1", "rs1", "x3", "ctl"}
          THEN {OtherCreep} ELSE {}] }

NoCall == [creep |-> "none", applicable |-> <<>>, tasks |-> <<>>, task |-> None,
           before |-> [t \in TargetIds |-> {}], ret |-> ""]
Idle == [phase |-> "unused"]

Init ==
    /\ room \in AssignRooms
    /\ creeps = Crew
    /\ maxPerTarget \in {[n \in TaskNames |-> m] : m \in 1..MaxCap}
    /\ targetedBy \in InitialCommitments
    /\ roles = defaultPatterns
    /\ calls = 0
    /\ last = NoCall
    /\ hauler = Idle
    /\ spawnOp = Idle
    /\ listing = <<>>
    /\ handling = Idle

\* ------------------------------------------- properties of assignTask
\* what the properties read off a call, stated apart from the brain's own
\* filter: the items of a category that were below their cap before the call
OpenItems(taskType, commitments) ==
    LET tasks == getTasks(taskType)
    IN {i \in 1..Len(tasks) :
           Cardinality(commitments[tasks[i].target.id]) < tasks[i].maxPerTarget}

InCategory(task, taskType) ==
    \E i \in 1..Len(getTasks(taskType)) :
        getTasks(taskType)[i].target.id = task.target.id

Eligible(c, taskType) ==
    /\ creeps[c].role \in assignmentRoles(taskType)
    /\ assignmentConditions(taskType, creeps[c])

\* the ranks of the categories the creep may work in that had an open item
OpenRanks(c, commitments) ==
    {k \in 1..Len(taskPriorities) :
        /\ Eligible(c, taskPriorities[k])
        /\ OpenItems(taskPriorities[k], commitments) # {}}

Called == last.creep # "none"
Committed == Called /\ last.ret # ""

\* C1: after any sequence of assignTask calls no work item has more committed
\* creeps than its cap, and no call commits a creep to an item that had
\* already reached its cap.
C1_CommitmentCap ==
    /\ \A taskType \in Categories : \A i \in 1..Len(getTasks(taskType)) :
           Cardinality(targetedBy[getTasks(taskType)[i].target.id])
               <= getTasks(taskType)[i].maxPerTarget
    /\ Committed =>
           Cardinality(last.before[last.task.target.id]) < last.task.maxPerTarget

\* a second call found the first candidate of its category at its cap and
\* filled another item up to its cap
C1_Witness ==
    /\ calls = 2 /\ Committed
    /\ Len(last.tasks) < Len(getTasks("supply"))
    /\ InCategory(last.task, "supply")
    /\ Cardinality(targetedBy[last.task.target.id]) = last.task.maxPerTarget

\* C2: when the creep is eligible for a category that has an open item, the
\* call never returns an assignment from a category ranked after it.
C2_PriorityExhaustion ==
    Committed =>
        \A a \in 1..Len(taskPriorities) : \A b \in 1..Len(taskPriorities) :
            ( /\ a < b
              /\ Eligible(last.creep, taskPriorities[a])
              /\ OpenItems(taskPriorities[a], last.before) # {} )
            => ~InCategory(last.task, taskPriorities[b])

\* a worker is given a repair although build, road and fortify work is open
C2_Witness ==
    /\ Committed /\ last.ret = "repair"
    /\ Cardinality(OpenRanks(last.creep, last.before)) >= 4

\* C5: the call returns nothing exactly when no category the creep is eligible
\* for has an open item, and otherwise commits the creep to an item of the
\* first such category.
C5_AssignIffCandidates ==
    Called =>
        LET ranks == OpenRanks(last.creep, last.before)
        IN /\ (last.ret = "") <=> (ranks = {})
           /\ ranks # {} =>
                 LET first == CHOOSE k \in ranks : \A j \in ranks : k <= j
                 IN /\ InCategory(last.task, taskPriorities[first])
                    /\ last.task.target.id \in
                          {getTasks(taskPriorities[first])[i].target.id :
                             i \in OpenItems(taskPriorities[first], last.before)}
                    /\ last.creep \in targetedBy[last.task.target.id]

\* a creep that was eligible for two categories with listed items got nothing
\* because every item of both was at its cap
C5_Witness ==
    /\ Called /\ last.ret = ""
    /\ Cardinality({k \in 1..Len(taskPriorities) :
            /\ Eligible(last.creep, taskPriorities[k])
            /\ Len(getTasks(taskPriorities[k])) > 0}) >= 2

\* C6: when the chosen category is fortify the creep is committed to the open
\* barrier with the fewest hit points, wherever the creep stands.
C6_FortifyLowestHits ==
    (Committed /\ last.ret = "fortify") =>
        /\ InCategory(last.task, "fortify")
        /\ \A i \in OpenItems("fortify", last.before) :
               last.task.target.hits <= getTasks("fortify")[i].target.hits

\* barriers of 500, 2000 and 100 hits are all open: the creep in the room gets
\* the 100-hit one, which is the farthest from it and the last listed
C6_Witness ==
    /\ Committed /\ last.ret = "fortify" /\ creeps[last.creep].inRoom
    /\ [i \in 1..Len(last.tasks) |-> last.tasks[i].target.hits] = <<500, 2000, 100>>
    /\ last.task.target.hits = 100
    /\ \A i \in 1..2 :
           getRangeTo(creeps[last.creep].pos, last.tasks[i].target)
               < getRangeTo(creeps[last.creep].pos, last.task.target)

\* C7: for a category other than fortify, a creep in the room is committed to
\* an open item no other open item is closer than, and a creep elsewhere to
\* the first open item in catalog order.
C7_ClosestOrFirst ==
    (Committed /\ last.ret # "fortify") =>
        \A k \in 1..Len(taskPriorities) :
            InCategory(last.task, taskPriorities[k]) =>
                LET tasks == getTasks(taskPriorities[k])
                    open == OpenItems(taskPriorities[k], last.before)
                IN IF creeps[last.creep].inRoom
                   THEN \A i \in open :
                            getRangeTo(creeps[last.creep].pos, last.task.target)
                                <= getRangeTo(creeps[last.creep].pos, tasks[i].target)
                   ELSE \E i \in open :
                            /\ tasks[i].target.id = last.task.target.id
                            /\ \A j \in open : i <= j

\* a creep in the room is given the nearer of two open items although it is
\* listed second
C7_Witness ==
    /\ Committed /\ last.ret = "supply" /\ creeps[last.creep].inRoom
    /\ Len(last.tasks) = 2
    /\ last.task.target.id = last.tasks[2].target.id
    /\ getRangeTo(creeps[last.creep].pos, last.tasks[2].target)
           < getRangeTo(creeps[last.creep].pos, last.tasks[1].target)

\* C8: the eligible-category list of a call is exactly the subsequence of the
\* ranking made of the categories whose allowed roles contain the creep's role
\* and whose capability condition holds: carry part and not full for pickup and
\* collect, carry part and energy for the supply categories, work part and
\* energy for repair, build, buildRoads, fortify and upgrade.
C8_EligibleListExact ==
    Called =>
        LET cr == creeps[last.creep]
            app == last.applicable
            Capable(taskType) ==
                IF taskType \in {"pickup", "collect"}
                THEN cr.carryParts >= 1 /\ cr.energy < cr.carryCapacity
                ELSE IF taskType \in {"supplyTowers", "supply"}
                THEN cr.carryParts >= 1 /\ cr.energy >= 1
                ELSE cr.workParts >= 1 /\ cr.energy >= 1
            Rank(taskType) ==
                CHOOSE k \in 1..Len(taskPriorities) : taskPriorities[k] = taskType
        IN /\ \A i \in 1..Len(app) : app[i] \in Categories
           /\ \A i \in 1..Len(app) : \A j \in 1..Len(app) :
                  i < j => Rank(app[i]) < Rank(app[j])
           /\ \A taskType \in Categories :
                  (\E i \in 1..Len(app) : app[i] = taskType)
                      <=> (cr.role \in assignmentRoles(taskType) /\ Capable(taskType))

\* a half-loaded hauler is eligible for three categories, listed in the
\* ranking's order, with pickup between them left out
C8_Witness ==
    /\ Called /\ creeps[last.creep].role = "hauler"
    /\ last.applicable = <<"supplyTowers", "supply", "collect">>

Next == \E c \in DOMAIN creeps : AssignTask(c)

Spec == Init /\ [][Next]_vars

\* ---------------------- one creep of any role, body and load (the filter)
Roles == {"worker", "hauler", "miner", "supplier", "upgrader", "guard", "linker"}

Bodies ==
    {body(r, cp, wp, e, inr, <<0, 0>>) :
        r \in Roles, cp \in {0, 2}, wp \in {0, 1}, e \in {0, 50, 100},
        inr \in BOOLEAN}

FilterRooms ==
    { snapshot([towers |-> <<tower(400)>>,
                sinks |-> <<sink("s1", 0, <<6, 5>>), sink("s2", 0, <<1, 1>>)>>,
                containers |-> <<container(1500)>>],
               [repairables |-> <<road(3000)>>,
                structureSites |-> <<site("b1", <<6, 6>>), site("b2", <<0, 1>>)>>,
                roadSites |-> <<site("rs1", <<2, 5>>)>>,
                barriers |-> barriers(<<500, 2000, 100>>),
                controller |-> controller(lvl, TRUE)]) : lvl \in {3, 8} }

InitFilter ==
    /\ room \in FilterRooms
    /\ creeps \in {[x \in {"solo"} |-> b] : b \in {b \in Bodies : b.energy <= b.carryCapacity}}
    /\ maxPerTarget = [n \in TaskNames |-> 1]
    /\ targetedBy = [t \in TargetIds |-> {}]
    /\ roles = defaultPatterns
    /\ calls = 0
    /\ last = NoCall
    /\ hauler = Idle
    /\ spawnOp = Idle
    /\ listing = <<>>
    /\ handling = Idle

SpecFilter == InitFilter /\ [][Next]_vars

\* ------------------------------- one call of calculateHaulerRequirements
HaulerPatterns == { <<"carry", "move">>, <<"carry", "carry", "move">> }

\* energyCapacityAvailable: a spawn alone, then with extensions
EnergyCapacities == {300, 550, 800, 1000, 1300, 1500, 1800, 2300, 5600}

HaulerRooms ==
    { catalog(DefaultSupplySide, DefaultWorkSide) @@
      [ DefaultEconomy EXCEPT
          !.spawns = g.spawns, !.storage = g.storage,
          !.sources = <<source("src1", len, g.linked, 1, 0)>>,
          !.energyCapacityAvailable = e ] :
      len \in 1..MaxPathLength, e \in EnergyCapacities,
      g \in { [spawns |-> <<spawn(FALSE)>>, storage |-> storage(FALSE, 0, 0, <<>>),
               linked |-> FALSE],
              [spawns |-> <<spawn(FALSE)>>, storage |-> storage(FALSE, 0, 0, <<>>),
               linked |-> TRUE],
              [spawns |-> <<spawn(FALSE)>>, storage |-> storage(TRUE, 0, 1, <<>>),
               linked |-> TRUE],
              [spawns |-> <<spawn(FALSE)>>, storage |-> noStorage, linked |-> FALSE],
              [spawns |-> <<spawn(TRUE)>>, storage |-> storage(FALSE, 0, 0, <<>>),
               linked |-> FALSE] } }

InitHauler ==
    /\ room \in HaulerRooms
    /\ roles \in {[defaultPatterns EXCEPT !.hauler.bodyPattern = p] : p \in HaulerPatterns}
    /\ creeps = Crew
    /\ maxPerTarget = [n \in TaskNames |-> 1]
    /\ targetedBy = [t \in TargetIds |-> {}]
    /\ calls = 0
    /\ last = NoCall
    /\ hauler = [phase |-> "input"]
    /\ spawnOp = Idle
    /\ listing = <<>>
    /\ handling = Idle

\* ------------------------------------- properties of the hauler split
HaulerSplitDone ==
    /\ hauler.phase = "done"
    /\ hasSpawn /\ room.storage.exists
    /\ ~(room.sources[hauler.source].linked /\ room.storage.linked)

\* C9 as stated: a required size of 25 with a maximum affordable size of 10
\* gives numHaulers = 3 and haulerSize = 10.
C9_SplitGivesMaxSize ==
    (HaulerSplitDone /\ hauler.required = 25 /\ hauler.max = [num |-> 10, den |-> 1])
        => hauler.out = <<10, 3>>

\* C9, amended: a required size of 25 with a maximum affordable size of 10
\* gives numHaulers = 3 and haulerSize = 9, the required size spread evenly
\* over the three haulers and rounded up (3 * 9 >= 25).
C9_SplitSpreadsEvenly ==
    (HaulerSplitDone /\ hauler.required = 25 /\ hauler.max = [num |-> 10, den |-> 1])
        => hauler.out = <<9, 3>>

\* the call was made for a required size of 25 and a maximum of 10
C9_Witness ==
    /\ HaulerSplitDone /\ hauler.required = 25
    /\ hauler.max = [num |-> 10, den |-> 1] /\ hauler.out[2] = 3

\* C10 as stated: with R the required size and M the maximum affordable size,
\* the result is [R, 1] when R <= M, and otherwise numHaulers = ceil(R / M)
\* with a size that is at most M and with haulerSize * numHaulers >= R.
C10_SplitWithinMax ==
    HaulerSplitDone =>
        LET R == hauler.required
            M == hauler.max
        IN IF R * M.den <= M.num
           THEN hauler.out = <<R, 1>>
           ELSE /\ hauler.out[2] = CeilDiv(R * M.den, M.num)
                /\ hauler.out[1] * M.den <= M.num
                /\ hauler.out[1] * hauler.out[2] >= R

\* the same with the size bounded by M rounded up; it is the claim itself
\* whenever M is a whole number
SplitWithinMaxRoundedUp ==
    HaulerSplitDone =>
        LET R == hauler.required
            M == hauler.max
        IN IF R * M.den <= M.num
           THEN hauler.out = <<R, 1>>
           ELSE /\ hauler.out[2] = CeilDiv(R * M.den, M.num)
                /\ hauler.out[1] <= CeilDiv(M.num, M.den)
                /\ hauler.out[1] * hauler.out[2] >= R

NextHauler == \E i \in 1..Len(room.sources) : CalculateHaulerRequirements(i)

SpecHauler == InitHauler /\ [][NextHauler]_vars

\* ----------------------------------------- one call of handleSpawnOperations
noRoom == [exists |-> FALSE]
flagRoom(name, mine, miners, bodyLengths) ==
    [ exists |-> TRUE, my |-> mine, name |-> name, controllerId |-> "ctl2",
      sources |-> <<[id |-> "src9", assigned |-> [miner |-> miners]]>>,
      workerBodyLengths |-> bodyLengths ]

flag(id, group, kind, len, action, fr, hauling) ==
    [ id |-> id, group |-> group, kind |-> kind,
      pathLengthToAssignedRoomStorage |-> len, action |-> action, room |-> fr,
      haulingNeeded |-> hauling ]

guardFlag(action) == flag("guard1", "millitary", "guard", 30, action, noRoom, 0)
mineFlag(action, hauling) ==
    flag("mine1", "industry", "remoteMine", 50, action, noRoom, hauling)
visionFlag(action) == flag("vision1", "vision", "stationary", 60, action, noRoom, 0)
incubateFlag(id, len, miners, bodyLengths) ==
    flag(id, "territory", "claimAndIncubate", len, null,
         flagRoom("W2N1", TRUE, miners, bodyLengths), 0)

guard == create("guard", "guard1", "W1N1", 3)
remoteMiner == create("miner", "mine1", "W1N1", 3)

\* the flags assigned to the room
FlagSets ==
    { <<>>,
      <<guardFlag(null), mineFlag(null, 500)>>,
      <<incubateFlag("inc1", 40, 0, <<>>), guardFlag(guard), mineFlag(null, 500)>>,
      <<incubateFlag("inc1", 40, 1, <<90, 90, 90>>), mineFlag(remoteMiner, 0),
        guardFlag(guard), visionFlag(null)>>,
      <<incubateFlag("inc1", 40, 1, <<90, 30>>), incubateFlag("inc2", 10, 1, <<90, 90, 90>>),
        mineFlag(remoteMiner, 500)>> }

\* a creep of the room as the renewal search sees it
nearby(renewMe, ticksToLive, range) ==
    [renewMe |-> renewMe, ticksToLive |-> ticksToLive, rangeToSpawn |-> range]

\* the creeps about: none; one to renew beside the spawn; three that miss one
\* condition of the search each
RenewalCrews ==
    { <<>>,
      <<nearby(TRUE, 499, 1)>>,
      <<nearby(TRUE, 500, 1), nearby(FALSE, 100, 0), nearby(TRUE, 100, 2)>> }

SpawnRooms ==
    { [ catalog(DefaultSupplySide, DefaultWorkSide) EXCEPT
          !.incubateFlagInRoom = inc,
          !.controller.assigned =
              [supplier |-> sup, worker |-> wrk, upgrader |-> upg] ] @@
      [ spawns |-> sp, storage |-> st, terminal |-> tm.terminal, labs |-> tm.labs,
        sources |-> <<source("src1", 20, FALSE, 1, 1), source("src2", 30, FALSE, min, hau)>>,
        storageUnits |-> units, energyCapacityAvailable |-> 1300,
        assignedFlags |-> flags, myCreeps |-> renew ] :
      inc \in BOOLEAN, sup \in {0, 2}, wrk \in {0, 3}, upg \in {0, 2},
      sp \in { <<>>, <<spawn(TRUE)>>, <<spawn(TRUE), spawn(FALSE)>> },
      st \in { noStorage, storage(FALSE, 80000, 0, <<100>>),
               storage(TRUE, 80000, 0, <<400, 400>>) },
      tm \in { [terminal |-> noTerminal, labs |-> 0],
               [terminal |-> terminal(0), labs |-> 1] },
      min \in {0, 1}, hau \in {0, 1}, units \in {0, 1},
      flags \in FlagSets, renew \in RenewalCrews }

InitSpawn ==
    /\ room \in SpawnRooms
    /\ roles = defaultPatterns
    /\ creeps = Crew
    /\ maxPerTarget = [n \in TaskNames |-> 1]
    /\ targetedBy = [t \in TargetIds |-> {}]
    /\ calls = 0
    /\ last = NoCall
    /\ hauler = Idle
    /\ spawnOp = [phase |-> "idle"]
    /\ listing = <<>>
    /\ handling = Idle

\* ------------------------------- properties of handleSpawnOperations
SpawnDone == spawnOp.phase = "done"

\* the stages a run evaluated, in order
StagesRun ==
    LET IsStage(c) == c.stage = "handleSpawnOperations"
        stages == SelectSeq(spawnOp.calls, IsStage)
    IN [i \in 1..Len(stages) |-> stages[i].op]

\* what a stage returns on the snapshot of the run
Responds(name) == spawnOperation(name, spawnOp.haulers).response # null

StageNames ==
    { "handleCoreSpawnOperations", "handleIncubationSpawnOperations",
      "handleAssignedSpawnOperations", "handleInferredSpawnOperations" }

\* C3: an invocation hands at most one directive to createCreep, and returns
\* null without calling createCreep when none of its stages yields a result.
C3_AtMostOneDirective ==
    SpawnDone =>
        /\ Len(spawnOp.created) <= 1
        /\ (spawnOp.ret = null) <=> (spawnOp.created = <<>>)
        /\ (hasSpawn /\ \A name \in StageNames : ~Responds(name))
               => (spawnOp.created = <<>> /\ spawnOp.ret = null)

\* three stages would each yield a directive and one was handed on
C3_Witness ==
    /\ SpawnDone /\ hasSpawn
    /\ Cardinality({name \in StageNames : Responds(name)}) >= 3
    /\ Len(spawnOp.created) = 1

\* a run in which no stage yields anything
C3_WitnessNone ==
    /\ SpawnDone /\ hasSpawn /\ room.assignedFlags # <<>>
    /\ \A name \in StageNames : ~Responds(name)
    /\ spawnOp.ret = null

\* C4: the stages are evaluated in the order core, incubation, assigned,
\* inferred, a stage only if every earlier one returned nothing; when the
\* core stage yields a directive no incubation handler, no flag action and no
\* inferred handler is called; the assist stage is never evaluated.
C4_StagesInOrder ==
    SpawnDone =>
        LET order == << "handleCoreSpawnOperations", "handleIncubationSpawnOperations",
                        "handleAssignedSpawnOperations", "handleInferredSpawnOperations" >>
            run == StagesRun
        IN /\ Len(run) <= Len(order)
           /\ \A i \in 1..Len(run) : run[i] = order[i]
           /\ \A i \in 1..Len(order) :
                  (i \in 1..Len(run)) <=>
                      (hasSpawn /\ \A j \in 1..(i - 1) : ~Responds(order[j]))
           /\ Responds("handleCoreSpawnOperations") =>
                  \A k \in 1..Len(spawnOp.calls) :
                      spawnOp.calls[k].stage \in
                          {"handleSpawnOperations", "handleCoreSpawnOperations"}
           /\ \A k \in 1..Len(spawnOp.calls) :
                  spawnOp.calls[k].op # "assistAssignedSpawnOperations"

\* the core stage yielded a creep while the incubation, assigned and inferred
\* stages would each have yielded one: only the core stage was run
C4_Witness ==
    /\ SpawnDone /\ hasSpawn
    /\ \A name \in StageNames : Responds(name)
    /\ spawnOp.created[1].kind = "creep"
    /\ StagesRun = <<"handleCoreSpawnOperations">>

NextSpawn == HandleSpawnOperations

SpecSpawn == InitSpawn /\ [][NextSpawn]_vars

\* ------------------------------------------ getTasks calls on one snapshot
noController == [exists |-> FALSE]
structure(i, type, h, hm) ==
    [id |-> i, structureType |-> type, hits |-> h, hitsMax |-> hm, pos |-> <<3, 3>>]
dropped(i, a) == [id |-> i, amount |-> a, pos |-> <<3, 1>>]
store(i, e) == [id |-> i, energy |-> e, pos |-> <<4, 4>>]
consumer(i, e, cap) == [id |-> i, energy |-> e, energyCapacity |-> cap, pos |-> <<2, 2>>]

\* energy lying about, stored and wanted: nothing that qualifies, or items on
\* both sides of every threshold
CatalogSupplySides ==
    { [ droppedEnergy |-> <<dropped("d1", 100)>>,
        containers |-> <<store("k1", 1000)>>,
        towers |-> <<consumer("w1", 1000, 1000)>>,
        sinks |-> <<>> ],
      [ droppedEnergy |-> <<dropped("d1", 50), dropped("d2", 101), dropped("d3", 100),
                            dropped("d4", 150)>>,
        containers |-> <<store("k1", 1001), store("k2", 1000), store("k3", 2000)>>,
        towers |-> <<consumer("w1", 1000, 1000), consumer("w2", 999, 1000)>>,
        sinks |-> <<consumer("s1", 0, 300), consumer("s2", 300, 300),
                    consumer("s3", 49, 50)>> ] }

\* structures, sites and barriers: nothing that qualifies, or items on both
\* sides of every threshold
CatalogWorkSides ==
    { [ repairables |-> <<structure("r1", "road", 3500, 5000),
                          structure("e1", "extension", 1000, 1000)>>,
        structureSites |-> <<>>, roadSites |-> <<>>,
        barriers |-> <<barrier("x1", 1000000, <<1, 0>>)>> ],
      [ repairables |-> <<structure("r1", "road", 5000, 5000),
                          structure("r2", "road", 3500, 5000),
                          structure("r3", "road", 3499, 5000),
                          structure("c1", "container", 200000, 250000),
                          structure("c2", "container", 100000, 250000),
                          structure("e1", "extension", 999, 1000),
                          structure("e2", "extension", 1000, 1000)>>,
        structureSites |-> <<site("b1", <<6, 6>>), site("b2", <<0, 1>>)>>,
        roadSites |-> <<site("rs1", <<2, 5>>)>>,
        barriers |-> <<barrier("x1", 500, <<1, 0>>), barrier("x2", 1000, <<4, 0>>),
                       barrier("x3", 9999, <<6, 6>>), barrier("x4", 99999, <<6, 1>>),
                       barrier("x5", 999999, <<1, 6>>),
                       barrier("x6", 1000000, <<2, 6>>)>> ] }

CatalogControllers ==
    { noController, controller(2, FALSE), controller(3, TRUE), controller(5, TRUE),
      controller(8, TRUE) }

CatalogRooms ==
    { [ name |-> "W1N1", incubateFlagInRoom |-> inc,
        droppedEnergy |-> s.droppedEnergy, towers |-> s.towers, sinks |-> s.sinks,
        containers |-> s.containers, repairables |-> w.repairables,
        structureSites |-> w.structureSites, roadSites |-> w.roadSites,
        barriers |-> w.barriers, controller |-> c ] @@ DefaultEconomy :
      s \in CatalogSupplySides, w \in CatalogWorkSides, c \in CatalogControllers,
      inc \in BOOLEAN }

\* a taskType the switch of getTasks has no case for
UnknownTaskType == "scout"

InitCatalog ==
    /\ room \in CatalogRooms
    /\ roles = defaultPatterns
    /\ creeps = Crew
    /\ maxPerTarget = [n \in TaskNames |-> 1]
    /\ targetedBy = [t \in TargetIds |-> {}]
    /\ calls = 0
    /\ last = NoCall
    /\ hauler = Idle
    /\ spawnOp = Idle
    /\ listing = <<>>
    /\ handling = Idle

NextCatalog == \E taskType \in Categories \cup {UnknownTaskType} : GetTasks(taskType)

SpecCatalog == InitCatalog /\ [][NextCatalog]_vars

\* ------------------------------------------------- properties of getTasks
\* the collection of the room a category lists from
Listed(taskType) ==
    CASE taskType = "pickup" -> room.droppedEnergy
      [] taskType = "collect" -> room.containers
      [] taskType = "supplyTowers" -> room.towers
      [] taskType = "supply" -> room.sinks
      [] taskType = "repair" -> room.repairables
      [] taskType = "build" -> room.structureSites
      [] taskType = "buildRoads" -> room.roadSites
      [] taskType = "fortify" -> room.barriers
      [] taskType = "upgrade" -> IF room.controller.exists THEN <<room.controller>> ELSE <<>>
      [] OTHER -> <<>>

\* the defining predicate of a category, as the claim words it
Qualifies(taskType, t) ==
    CASE taskType = "pickup" -> t.amount > 100
      [] taskType = "collect" -> t.energy > 1000
      [] taskType \in {"supplyTowers", "supply"} -> t.energy < t.energyCapacity
      [] taskType = "repair" ->
             /\ t.hits < t.hitsMax
             /\ t.structureType \in {"container", "road"} => 10 * t.hits < 7 * t.hitsMax
      [] taskType = "fortify" -> t.hits < fortifyLevel
      [] taskType = "upgrade" -> t = room.controller /\ room.controller.my
      [] OTHER -> TRUE

\* C11: every work item getTasks returns is an item of the category's
\* collection that satisfies the category's defining predicate in the
\* snapshot (pickup amount > 100, collect energy > 1000, supply energy <
\* capacity, repair hits < hitsMax and < 70% of hitsMax for containers and
\* roads, fortify hits < the fortify level in effect, upgrade the owned
\* controller only), and the result is the empty sequence when no item
\* qualifies.
C11_ListedItemsQualify ==
    \A k \in 1..Len(listing) :
        LET taskType == listing[k].taskType
            tasks == listing[k].tasks
        IN /\ DOMAIN tasks = 1..Len(tasks)
           /\ \A i \in 1..Len(tasks) :
                  /\ \E j \in 1..Len(Listed(taskType)) :
                         Listed(taskType)[j] = tasks[i].target
                  /\ Qualifies(taskType, tasks[i].target)
           /\ (\A j \in 1..Len(Listed(taskType)) :
                   ~Qualifies(taskType, Listed(taskType)[j])) => tasks = <<>>

\* repair was listed on a snapshot with seven repairables: the three that
\* qualify are returned, the road at exactly 70% and the container at 80% are
\* not
C11_Witness ==
    \E k \in 1..Len(listing) :
        /\ listing[k].taskType = "repair"
        /\ Len(room.repairables) = 7
        /\ [i \in 1..Len(listing[k].tasks) |-> listing[k].tasks[i].target.id]
               = <<"r3", "c2", "e1">>

\* the targets of a listing, in order
TargetsOf(tasks) == [i \in 1..Len(tasks) |-> tasks[i].target]

flags(n, group, kind) ==
    [i \in 1..n |-> flag("f", group, kind, 30 + i, null, noRoom, 0)]

baseRoom == snapshot(DefaultSupplySide, DefaultWorkSide)

\* the workers, suppliers and upgraders assigned to the controller
staffed(r, sup, wrk, upg) ==
    [ r EXCEPT !.controller.assigned =
                   [supplier |-> sup, worker |-> wrk, upgrader |-> upg] ]

\* rooms around the supplier quota: the energy consumers, the suppliers at
\* work and the assigned flags vary
SupplierRooms ==
    { [ staffed(baseRoom, sup, 3, 2) EXCEPT
          !.incubateFlagInRoom = inc, !.sinks = c.sinks, !.towers = c.towers,
          !.assignedFlags = fl ] :
      inc \in BOOLEAN, sup \in 0..4,
      c \in { [sinks |-> <<>>, towers |-> <<>>],
              [sinks |-> <<sink("s1", 300, <<6, 5>>)>>, towers |-> <<>>],
              [sinks |-> <<>>, towers |-> <<tower(1000)>>],
              [sinks |-> <<sink("s1", 300, <<6, 5>>)>>, towers |-> <<tower(1000)>>],
              [sinks |-> <<sink("s1", 300, <<6, 5>>), sink("s2", 0, <<1, 1>>)>>,
               towers |-> <<>>] },
      fl \in { <<>>,
               flags(9, "millitary", "guard") \o flags(5, "vision", "stationary"),
               flags(4, "millitary", "guard") \o flags(3, "industry", "remoteMine")
                   \o flags(2, "territory", "claimAndIncubate")
                   \o flags(1, "destroy", "sieger"),
               flags(20, "industry", "remoteMine") } }

\* rooms around the worker requirement: workers at work, the source with its
\* miner and hauler or without, storage or none, storage units, jobs waiting
\* and the energy capacity vary
WorkerRooms ==
    { [ staffed(snapshot(DefaultSupplySide, w), sup, wrk, 0) EXCEPT
          !.incubateFlagInRoom = inc, !.storage = st, !.storageUnits = units,
          !.sources = <<source("src1", 20, FALSE, min, min)>>,
          !.energyCapacityAvailable = e ] :
      inc \in BOOLEAN, sup \in {0, 2}, wrk \in 0..3, min \in {0, 1},
      st \in {noStorage, storage(FALSE, 0, 0, <<>>)}, units \in {0, 1},
      e \in {300, 1300, 2400},
      w \in { DefaultWorkSide,
              [ DefaultWorkSide EXCEPT
                  !.repairables = <<road(2000)>>,
                  !.structureSites = <<site("b1", <<6, 6>>), site("b2", <<0, 1>>)>>,
                  !.barriers = barriers(<<500, 2000, 100>>) ] } }

\* rooms around the upgrader size: the stored energy, the controller level
\* and the upgraders at work vary
UpgraderRooms ==
    { [ staffed(baseRoom, 2, 3, upg) EXCEPT
          !.incubateFlagInRoom = inc, !.storage = storage(FALSE, e, 0, <<>>),
          !.storageUnits = 1, !.controller.level = lvl,
          !.energyCapacityAvailable = cap ] :
      inc \in BOOLEAN, upg \in {0, 1, 5}, lvl \in {4, 8}, cap \in {300, 1300},
      e \in {0, 5000, 74999, 75000, 80000, 94999, 95000, 115000, 135000, 500000} }

DomesticRooms == SupplierRooms \cup WorkerRooms \cup UpgraderRooms

InitDomestic ==
    /\ room \in DomesticRooms \cup SpawnRooms
    /\ roles = defaultPatterns
    /\ creeps = Crew
    /\ maxPerTarget = [n \in TaskNames |-> 1]
    /\ targetedBy = [t \in TargetIds |-> {}]
    /\ calls = 0
    /\ last = NoCall
    /\ hauler = Idle
    /\ spawnOp = Idle
    /\ listing = <<>>
    /\ handling = [phase |-> "idle"]

NextDomestic ==
    \/ \E i \in 1..Len(prioritizedDomesticOperations) :
           DomesticHandler(prioritizedDomesticOperations[i])
    \/ HandleCoreSpawnOperations

SpecDomestic == InitDomestic /\ [][NextDomestic]_vars

\* ------------------------------------ properties of the domestic handlers
Handled(name) == handling.phase = "done" /\ handling.op = name

\* C14: an upgrader is sized 1 + floor(max(stored energy - upgrader buffer,
\* 0) / 20000), capped at 3 at controller level 8 and uncapped below; with
\* 80,000 stored and a buffer of 75,000 the size is 1; the size is never
\* below 1.
C14_UpgraderSize ==
    (Handled("handleUpgraders") /\ handling.response # null) =>
        LET stored == room.storage.energy
            buffer == settings.storageBuffer.upgrader
            surplus == IF stored > buffer THEN stored - buffer ELSE 0
            steps == 1 + (surplus \div 20000)
            size == handling.response.patternRepetitionLimit
        IN /\ handling.response.role = "upgrader"
           /\ size >= 1
           /\ room.controller.level = 8 => size = (IF steps > 3 THEN 3 ELSE steps)
           /\ room.controller.level < 8 => size = steps
           /\ (stored = 80000 /\ buffer = 75000) => size = 1

\* at level 8 a surplus of more than two steps gives size 3
C14_Witness ==
    /\ Handled("handleUpgraders") /\ handling.response # null
    /\ room.controller.level = 8
    /\ room.storage.energy - settings.storageBuffer.upgrader >= 60000
    /\ handling.response.patternRepetitionLimit = 3

\* 80,000 stored with the buffer of 75,000 gives size 1
C14_WitnessExample ==
    /\ Handled("handleUpgraders") /\ handling.response # null
    /\ room.storage.energy = 80000 /\ settings.storageBuffer.upgrader = 75000
    /\ handling.response.patternRepetitionLimit = 1

\* ------------------------- handleSpawnOperations on the domestic rooms
InitEndToEnd ==
    /\ room \in DomesticRooms
    /\ roles = defaultPatterns
    /\ creeps = Crew
    /\ maxPerTarget = [n \in TaskNames |-> 1]
    /\ targetedBy = [t \in TargetIds |-> {}]
    /\ calls = 0
    /\ last = NoCall
    /\ hauler = Idle
    /\ spawnOp = [phase |-> "idle"]
    /\ listing = <<>>
    /\ handling = Idle

SpecEndToEnd == InitEndToEnd /\ [][NextSpawn]_vars

\* the scenario: one source, no storage, a requirement of 2 workers by
\* energy, 1 worker at work
OneSourceOneWorker ==
    /\ SpawnDone
    /\ Len(room.sources) = 1 /\ ~room.storage.exists
    /\ calculateWorkerRequirementsByEnergy = 2
    /\ room.controller.assigned.worker = 1

\* the run handed exactly one worker directive of the configured size on
WorkerDirective ==
    /\ Len(spawnOp.created) = 1
    /\ spawnOp.created[1].kind = "creep"
    /\ spawnOp.created[1].role = "worker"
    /\ spawnOp.created[1].patternRepetitionLimit = settings.workerPatternRepetitionLimit

\* nothing ranked before the workers is wanted: the supplier quota is met,
\* no mineral supplier is missing and every source has its miner
NothingWantedBeforeWorkers ==
    /\ \/ Len(room.sinks) + Len(room.towers) <= 1
       \/ room.controller.assigned.supplier >=
              2 + (Len(SelectSeq(room.assignedFlags, isExpensiveFlag)) \div 10)
    /\ ~(room.terminal.exists /\ room.labs > 0
           /\ room.terminal.assigned.mineralSupplier < 1)
    /\ \A i \in 1..Len(room.sources) :
           room.sources[i].assigned.miner >= settings.minersPerSource

\* C13 as stated: with one source, no storage, an income-based requirement of
\* 2 workers and 1 worker at work, handleSpawnOperations produces a worker
\* directive with the configured workerPatternRepetitionLimit.
C13_WorkerDirectiveAlways ==
    OneSourceOneWorker => WorkerDirective

\* C13, amended: in that scenario handleSpawnOperations produces a worker
\* directive with the configured workerPatternRepetitionLimit provided the
\* room is not incubating, has at least one storage unit, and nothing ranked
\* before the workers (supplier, mineral supplier, miner) is wanted.
C13_WorkerDirectiveWhenDue ==
    ( /\ OneSourceOneWorker
      /\ ~incubating
      /\ room.storageUnits > 0
      /\ NothingWantedBeforeWorkers ) => WorkerDirective

\* the scenario with its provisos met: a worker of the configured size
C13_Witness ==
    /\ OneSourceOneWorker /\ ~incubating /\ room.storageUnits > 0
    /\ NothingWantedBeforeWorkers
    /\ WorkerDirective
    /\ spawnOp.created[1].assignment = room.controller.id

\* every spawn of the room is spawning, or the room has none
NoFreeFacility == \A i \in 1..Len(room.spawns) : room.spawns[i].spawning

\* C15: when the room has no spawn, or every spawn is busy spawning,
\* handleSpawnOperations returns null, evaluates no stage and no handler, and
\* does not call createCreep.
C15_NoFacilityNoStage ==
    (SpawnDone /\ NoFreeFacility) =>
        /\ spawnOp.ret = null
        /\ spawnOp.calls = <<>>
        /\ spawnOp.created = <<>>

\* the only spawn is busy in a room whose core stage would yield a directive
C15_Witness ==
    /\ SpawnDone /\ Len(room.spawns) = 1 /\ room.spawns[1].spawning
    /\ room.controller.assigned.supplier = 0
    /\ spawnOp.ret = null /\ spawnOp.calls = <<>>

\* a room without a spawn
C15_WitnessNoSpawn ==
    /\ SpawnDone /\ room.spawns = <<>> /\ room.assignedFlags # <<>>
    /\ spawnOp.ret = null /\ spawnOp.calls = <<>>

\* ------------------- assignTask with targets that vanish before the commit
NextStale == \E c \in DOMAIN creeps : AssignTaskStale(c)

SpecStale == Init /\ [][NextStale]_vars

\* the candidates of the latest call whose target still exists at the commit
LiveCandidates ==
    {i \in 1..Len(last.tasks) : last.tasks[i].target.id \notin last.gone}

\* C16: when a listed target has ceased to exist before the commitment, the
\* creep is not committed to it, and is committed to a remaining candidate
\* whenever there is one.
C16_StaleTargetSkipped ==
    (Called /\ last.gone # {}) =>
        /\ \A t \in last.gone : last.creep \notin targetedBy[t]
        /\ LiveCandidates # {} =>
               \E i \in LiveCandidates :
                   last.creep \in targetedBy[last.tasks[i].target.id]

\* what the code does instead: when the chosen target is gone the creep is
\* either committed to it or left as it was, and no other candidate is tried
StaleChoiceNeverReplaced ==
    (Called /\ last.task # None /\ last.task.target.id \in last.gone) =>
        \/ last.creep \in targetedBy[last.task.target.id]
        \/ targetedBy = last.before

\* the role each domestic handler creates
RoleOf(name) ==
    CASE name = "handleSuppliers" -> "supplier"
      [] name = "handleLinkers" -> "linker"
      [] name = "handleMineralSuppliers" -> "mineralSupplier"
      [] name = "handleMiners" -> "miner"
      [] name = "handleHaulers" -> "hauler"
      [] name = "handleWorkers" -> "worker"
      [] name = "handleUpgraders" -> "upgrader"

\* the handlers a call of handleCoreSpawnOperations consulted, in order
Consulted == [i \in 1..Len(handling.calls) |-> handling.calls[i].op]

\* C17: handleCoreSpawnOperations consults suppliers, linkers, mineral
\* suppliers, miners, haulers, workers, upgraders in that order and returns
\* the first directive: a handler is consulted exactly when every handler
\* before it returned nothing, the directive returned is that of the last
\* handler consulted, and no later handler is consulted.
C17_DomesticOrder ==
    Handled("handleCoreSpawnOperations") =>
        LET order == << "handleSuppliers", "handleLinkers", "handleMineralSuppliers",
                        "handleMiners", "handleHaulers", "handleWorkers",
                        "handleUpgraders" >>
            Answer(i) == domesticOperation(order[i], handling.haulers)
        IN /\ Len(Consulted) <= Len(order)
           /\ \A i \in 1..Len(Consulted) : Consulted[i] = order[i]
           /\ \A i \in 1..Len(order) :
                  (i <= Len(Consulted)) <=> (\A j \in 1..(i - 1) : Answer(j) = null)
           /\ (\E i \in 1..Len(order) : Answer(i) # null) =>
                  /\ handling.response = Answer(Len(Consulted))
                  /\ handling.response.kind = "creep"
                  /\ handling.response.role = RoleOf(order[Len(Consulted)])
                  /\ \A j \in 1..(Len(Consulted) - 1) : Answer(j) = null

\* a worker is returned after five handlers returned nothing, and the
\* upgraders, which would have answered too, are not consulted
C17_Witness ==
    /\ Handled("handleCoreSpawnOperations")
    /\ handling.response # null /\ handling.response.kind = "creep"
    /\ handling.response.role = "worker"
    /\ Len(Consulted) = 6
    /\ handleUpgraders # null

\* the worker requirement handleWorkers would compare the workers with
WorkerRequirement ==
    IF room.storage.exists THEN calculateWorkerRequirementsByJobs
    ELSE calculateWorkerRequirementsByEnergy

\* C18: while the room is incubating, neither the core domestic stage nor a
\* domestic handler returns a miner directive or a worker directive, whatever
\* the miners assigned to the sources and whatever the worker requirement.
C18_IncubatingNoMinerNoWorker ==
    (handling.phase = "done" /\ incubating) =>
        \/ handling.response = null
        \/ handling.response.kind # "creep"
        \/ handling.response.role \notin {"miner", "worker"}

\* the core stage of an incubating room consulted the miners' and the workers'
\* handler while a source had no miner and workers were wanted, and returned
\* neither
C18_Witness ==
    /\ Handled("handleCoreSpawnOperations") /\ incubating
    /\ Len(Consulted) = 7
    /\ \E i \in 1..Len(room.sources) :
           room.sources[i].assigned.miner < settings.minersPerSource
    /\ room.controller.assigned.worker < WorkerRequirement
    /\ room.storageUnits > 0

\* the assigned flags of the military, destroy, industry and territory groups
ExpensiveFlagCount ==
    Cardinality({ i \in 1..Len(room.assignedFlags) :
                    room.assignedFlags[i].group
                        \in {"millitary", "destroy", "industry", "territory"} })

\* the structures that consume energy: sinks and towers
EnergyConsumers == Len(room.sinks) + Len(room.towers)

\* C19: handleSuppliers returns a supplier directive exactly when the room
\* has more than one energy consumer (sinks + towers > 1) and fewer suppliers
\* than 2 + floor(expensive flags / 10); with at most one consumer it returns
\* nothing.
C19_SupplierQuota ==
    Handled("handleSuppliers") =>
        /\ (handling.response # null) <=>
               (/\ EnergyConsumers > 1
                /\ room.controller.assigned.supplier
                       < 2 + (ExpensiveFlagCount \div 10))
        /\ handling.response # null =>
               (handling.response.kind = "creep" /\ handling.response.role = "supplier")
        /\ EnergyConsumers <= 1 => handling.response = null

\* a third supplier is ordered because ten or more expensive flags are assigned
C19_Witness ==
    /\ Handled("handleSuppliers")
    /\ handling.response # null
    /\ handling.response.role = "supplier"
    /\ room.controller.assigned.supplier = 2
    /\ ExpensiveFlagCount >= 10
    /\ EnergyConsumers = 2

\* suppliers are missing but the room has one energy consumer only: nothing
C19_WitnessOneConsumer ==
    /\ Handled("handleSuppliers")
    /\ handling.response = null
    /\ room.controller.assigned.supplier = 0
    /\ EnergyConsumers = 1

\* C20: outside incubation handleWorkers returns a worker directive exactly
\* when the workers are fewer than the requirement and the room has a
\* storage-class structure, the requirement being that of the job calculator
\* if the room has a storage and that of the income calculator otherwise; the
\* directive is assigned to the controller and carries the repetition limit
\* workerPatternRepetitionLimit.
C20_WorkerDirective ==
    (Handled("handleWorkers") /\ ~incubating) =>
        LET requirement ==
                IF room.storage.exists THEN calculateWorkerRequirementsByJobs
                ELSE calculateWorkerRequirementsByEnergy
        IN /\ (handling.response # null) <=>
                  (/\ room.controller.assigned.worker < requirement
                   /\ room.storageUnits >= 1)
           /\ handling.response # null =>
                  /\ handling.response.kind = "creep"
                  /\ handling.response.role = "worker"
                  /\ handling.response.assignment = room.controller.id
                  /\ handling.response.patternRepetitionLimit
                         = settings.workerPatternRepetitionLimit

\* a worker is ordered for a room with a storage because jobs are waiting
C20_Witness ==
    /\ Handled("handleWorkers") /\ ~incubating
    /\ room.storage.exists
    /\ handling.response # null
    /\ handling.response.role = "worker"
    /\ room.controller.assigned.worker < calculateWorkerRequirementsByJobs

\* a room without a storage: the income calculator sets the requirement
C20_WitnessByEnergy ==
    /\ Handled("handleWorkers") /\ ~incubating
    /\ ~room.storage.exists
    /\ handling.response # null
    /\ handling.response.role = "worker"

\* workers are wanted but the room has no storage-class structure: nothing
C20_WitnessNoStorageUnit ==
    /\ Handled("handleWorkers") /\ ~incubating
    /\ room.storageUnits = 0
    /\ room.controller.assigned.worker < WorkerRequirement
    /\ handling.response = null

\* ------------------------------------------- the job calculator's inputs
\* a worker pattern that costs more than a lone spawn's energy capacity
heavyPatterns ==
    [ defaultPatterns EXCEPT !.worker = [bodyPattern |-> <<"work", "work", "carry",
                                                            "move", "move">>] ]

\* structures to repair on both sides of the job threshold for roads (half
\* the hits) and of the catalog's (seven tenths, roads and containers)
JobRepairables ==
    { <<>>,
      <<structure("r1", "road", 5000, 5000)>>,
      <<structure("r1", "road", 3000, 5000)>>,
      <<structure("r1", "road", 2500, 5000)>>,
      <<structure("r1", "road", 2499, 5000)>>,
      <<structure("c1", "container", 200000, 250000)>>,
      <<structure("r1", "road", 2000, 5000), structure("e1", "extension", 999, 1000),
        structure("c1", "container", 100000, 250000)>> }

JobRooms ==
    { [ snapshot(DefaultSupplySide,
                 [ repairables |-> rep, structureSites |-> ss, roadSites |-> rs,
                   barriers |-> bs, controller |-> controller(lvl, TRUE) ])
        EXCEPT !.incubateFlagInRoom = inc, !.energyCapacityAvailable = e ] :
      rep \in JobRepairables, inc \in BOOLEAN, lvl \in {3, 8},
      ss \in { <<>>, <<site("b1", <<6, 6>>)>>,
               <<site("b1", <<6, 6>>), site("b2", <<0, 1>>)>> },
      rs \in { <<>>, <<site("rs1", <<2, 5>>)>> },
      bs \in { <<>>, barriers(<<2000000, 2000000, 2000000>>),
               barriers(<<500, 5000, 2000000>>) },
      e \in {300, 550, 1300, 6500} }

InitJobs ==
    /\ room \in JobRooms
    /\ roles \in {defaultPatterns, heavyPatterns}
    /\ creeps = Crew
    /\ maxPerTarget = [n \in TaskNames |-> 1]
    /\ targetedBy = [t \in TargetIds |-> {}]
    /\ calls = 0
    /\ last = NoCall
    /\ hauler = Idle
    /\ spawnOp = Idle
    /\ listing = <<>>
    /\ handling = [phase |-> "idle"]

NextJobs == CalculateWorkerRequirementsByJobs

SpecJobs == InitJobs /\ [][NextJobs]_vars

\* the jobs of a room: structures to repair (a road only below half its
\* hits), construction sites of both kinds, barriers below the fortify level
JobCount ==
    Cardinality({ i \in 1..Len(room.repairables) :
                    /\ room.repairables[i].hits < room.repairables[i].hitsMax
                    /\ (room.repairables[i].structureType = "road"
                           => 2 * room.repairables[i].hits < room.repairables[i].hitsMax) })
    + Len(room.structureSites) + Len(room.roadSites)
    + Cardinality({ i \in 1..Len(room.barriers) :
                      room.barriers[i].hits < settings.fortifyLevel })

\* min(floor(energy capacity / cost of the worker pattern), repetition limit)
WorkerSizeOfRoom ==
    LET patternCost == cost(roles.worker.bodyPattern)
        affordable == room.energyCapacityAvailable \div patternCost
    IN IF affordable < settings.workerPatternRepetitionLimit THEN affordable
       ELSE settings.workerPatternRepetitionLimit

JobsResult == handling.response.value

\* C21: calculateWorkerRequirementsByJobs returns 0 when the repair,
\* construction and fortify jobs sum to 0, and otherwise
\* min(ceil(2 * jobs / workerSize), maxWorkersPerRoom), with workerSize =
\* min(floor(energy capacity / worker pattern cost), repetition limit); the
\* result is always between 0 and maxWorkersPerRoom.
C21_WorkersByJobs ==
    Handled("calculateWorkerRequirementsByJobs") =>
        /\ JobCount = 0 => JobsResult = 0
        /\ (JobCount > 0 /\ WorkerSizeOfRoom > 0) =>
               LET quotient == (2 * JobCount + WorkerSizeOfRoom - 1) \div WorkerSizeOfRoom
               IN JobsResult = (IF quotient < settings.maxWorkersPerRoom THEN quotient
                                ELSE settings.maxWorkersPerRoom)
        /\ JobsResult >= 0
        /\ JobsResult <= settings.maxWorkersPerRoom

\* the quotient is below the cap and is the result: one job, a worker of
\* two repetitions, a cap of three
C21_Witness ==
    /\ Handled("calculateWorkerRequirementsByJobs")
    /\ JobCount = 1 /\ WorkerSizeOfRoom = 2
    /\ settings.maxWorkersPerRoom = 3
    /\ JobsResult = 1

\* the quotient is above the cap and the cap is the result
C21_WitnessCapped ==
    /\ Handled("calculateWorkerRequirementsByJobs")
    /\ 2 * JobCount > 3 * WorkerSizeOfRoom /\ WorkerSizeOfRoom > 0
    /\ settings.maxWorkersPerRoom = 3
    /\ JobsResult = 3

\* no job: the result is 0
C21_WitnessNoJob ==
    /\ Handled("calculateWorkerRequirementsByJobs")
    /\ JobCount = 0 /\ Len(room.repairables) > 0
    /\ JobsResult = 0

\* the work items the catalog lists for the workers' categories
PendingWork ==
    getTasks("repair") \o getTasks("build") \o getTasks("buildRoads")
        \o getTasks("fortify")

\* a listed repair of a road that still has half its hits or more
IsLightRoadRepair(task) ==
    /\ task.name = "repair"
    /\ task.target.structureType = "road"
    /\ 2 * task.target.hits >= task.target.hitsMax

\* C29 as stated: whenever getTasks lists a repair, build, buildRoads or
\* fortify item, calculateWorkerRequirementsByJobs counts a job and returns at
\* least 1.
C29_NoZeroWhilePending ==
    (Handled("calculateWorkerRequirementsByJobs") /\ Len(PendingWork) > 0) =>
        (JobCount >= 1 /\ JobsResult >= 1)

\* C29, amended: whenever getTasks lists a build, buildRoads or fortify item,
\* or a repair item other than a road with half its hits or more,
\* calculateWorkerRequirementsByJobs counts a job and returns at least 1; when
\* the only items listed are repairs of roads between one half and seven
\* tenths of their hits, it counts no job and returns 0.
C29_NoZeroWhileHeavyWorkPending ==
    Handled("calculateWorkerRequirementsByJobs") =>
        LET heavy == { i \in 1..Len(PendingWork) : ~IsLightRoadRepair(PendingWork[i]) }
        IN /\ heavy # {} => (JobCount >= 1 /\ JobsResult >= 1)
           /\ (heavy = {} /\ room.repairables = getTargets("repair")) =>
                  (JobCount = 0 /\ JobsResult = 0)

\* a road below half its hits is the only item listed, and a worker is
\* required for it
C29_Witness ==
    /\ Handled("calculateWorkerRequirementsByJobs")
    /\ Len(PendingWork) = 1
    /\ PendingWork[1].name = "repair"
    /\ PendingWork[1].target.structureType = "road"
    /\ JobsResult >= 1

\* a road at six tenths of its hits is listed for repair and no worker is
\* required
C29_WitnessLightRoad ==
    /\ Handled("calculateWorkerRequirementsByJobs")
    /\ Len(PendingWork) = 1
    /\ IsLightRoadRepair(PendingWork[1])
    /\ JobsResult = 0

\* ----------------------------------------------- the assigned flags' inputs
\* what the action handler of a flag returns when it wants a creep
wanted(id) == create("guard", id, "W1N1", 3)

\* the responses of the action handlers: each flag's handler returns nothing
\* or a creep
FlagResponses == [ {"v1", "i1", "g1", "g2", "c1", "d1", "s1", "m1"} -> BOOLEAN ]

actionOf(wants, id) == IF wants[id] THEN wanted(id) ELSE null

\* flags of every kind consulted and of one that is not, listed in an order
\* that is neither that of the kinds nor that of the path lengths; the two
\* guard flags are at different or equal lengths
FlagRooms ==
    { [ baseRoom EXCEPT !.assignedFlags =
          << flag("m1", "industry", "remoteMine", 5, actionOf(wants, "m1"), noRoom, 0),
             flag("g2", "millitary", "guard", 20, actionOf(wants, "g2"), noRoom, 0),
             flag("s1", "millitary", "sieger", 15, actionOf(wants, "s1"), noRoom, 0),
             flag("hp", "rally", "healPoint", 1, wanted("hp"), noRoom, 0),
             flag("d1", "millitary", "destroyer", 25, actionOf(wants, "d1"), noRoom, 0),
             flag("g1", "millitary", "guard", len, actionOf(wants, "g1"), noRoom, 0),
             flag("c1", "territory", "colony", 40, actionOf(wants, "c1"), noRoom, 0),
             flag("i1", "territory", "claimAndIncubate", 60, actionOf(wants, "i1"),
                  noRoom, 0),
             flag("v1", "vision", "stationary", 90, actionOf(wants, "v1"), noRoom, 0) >> ] :
      wants \in FlagResponses, len \in {10, 20, 30} }

InitFlags ==
    /\ room \in FlagRooms
    /\ roles = defaultPatterns
    /\ creeps = Crew
    /\ maxPerTarget = [n \in TaskNames |-> 1]
    /\ targetedBy = [t \in TargetIds |-> {}]
    /\ calls = 0
    /\ last = NoCall
    /\ hauler = Idle
    /\ spawnOp = Idle
    /\ listing = <<>>
    /\ handling = [phase |-> "idle"]

NextFlags == HandleAssignedSpawnOperations

SpecFlags == InitFlags /\ [][NextFlags]_vars

\* the place of a flag kind in the order of the claim, 0 for a kind without
CategoryRank(kind) ==
    CASE kind = "stationary" -> 1
      [] kind = "claimAndIncubate" -> 2
      [] kind = "guard" -> 3
      [] kind = "colony" -> 4
      [] kind = "destroyer" -> 5
      [] kind = "sieger" -> 6
      [] kind = "remoteMine" -> 7
      [] OTHER -> 0

FlagOfId(id) ==
    room.assignedFlags[CHOOSE i \in 1..Len(room.assignedFlags) :
                           room.assignedFlags[i].id = id]

\* flag f comes strictly before flag g: an earlier category, or the same
\* category and a shorter path
ComesBefore(f, g) ==
    \/ CategoryRank(f.kind) < CategoryRank(g.kind)
    \/ /\ CategoryRank(f.kind) = CategoryRank(g.kind)
       /\ f.pathLengthToAssignedRoomStorage < g.pathLengthToAssignedRoomStorage

\* the flags whose action handler a call consulted, in order
FlagsConsulted == [i \in 1..Len(handling.calls) |-> FlagOfId(handling.calls[i].op)]

\* C22: handleAssignedSpawnOperations consults the action handlers category
\* by category in the order vision, claim-and-incubate, guard, colony,
\* destroyer, sieger, remote-mine and, within a category, by ascending path
\* length; it returns what the first handler with a result returns, consults
\* no handler after it, and returns nothing when no handler has a result.
C22_FlagOrder ==
    Handled("handleAssignedSpawnOperations") =>
        LET n == Len(FlagsConsulted)
            listed == { i \in 1..Len(room.assignedFlags) :
                          CategoryRank(room.assignedFlags[i].kind) > 0 }
        IN /\ \A i \in 1..n : CategoryRank(FlagsConsulted[i].kind) > 0
           /\ \A i \in 1..n : \A j \in 1..n :
                  i < j => /\ FlagsConsulted[i].id # FlagsConsulted[j].id
                           /\ ~ComesBefore(FlagsConsulted[j], FlagsConsulted[i])
           /\ \A i \in 1..(n - 1) : FlagsConsulted[i].action = null
           /\ n > 0 => /\ handling.response = FlagsConsulted[n].action
                       /\ \A i \in listed :
                              ComesBefore(room.assignedFlags[i], FlagsConsulted[n])
                                  => \E j \in 1..n :
                                         FlagsConsulted[j].id = room.assignedFlags[i].id
           /\ (handling.response = null) <=>
                  (\A i \in listed : room.assignedFlags[i].action = null)
           /\ handling.response = null => n = Cardinality(listed)

\* the farther guard flag answers after the nearer one, listed behind it, and
\* the flags of two earlier categories had nothing; the flags of the later
\* categories, nearer and with results of their own, are not consulted
C22_Witness ==
    /\ Handled("handleAssignedSpawnOperations")
    /\ Len(handling.calls) = 4
    /\ handling.calls[3].op = "g1" /\ handling.calls[4].op = "g2"
    /\ handling.response = wanted("g2")
    /\ FlagOfId("m1").action # null /\ FlagOfId("s1").action # null

\* no handler has a result: all eight are consulted and nothing is returned
C22_WitnessNone ==
    /\ Handled("handleAssignedSpawnOperations")
    /\ Len(handling.calls) = 8
    /\ handling.response = null

\* ------------------------------------------------ the remote haulers' inputs
\* the carry capacities of the haulers assigned to the storage
HaulerCapacities ==
    { <<>>, <<50>>, <<550>>, <<600>>, <<650>>, <<300, 300>>, <<300, 250>>, <<400, 400>> }

\* a remote-mine flag or two with their hauling needed, beside a guard flag
\* whose hauling needed does not count
RemoteFlagSets ==
    { <<flag("guard1", "millitary", "guard", 30, null, noRoom, 1000)>> \o mines :
      mines \in { <<>> } \cup
                { <<mineFlag(null, h)>> : h \in {0, 250, 500, 541, 542} } \cup
                { <<mineFlag(null, h),
                    flag("mine2", "industry", "remoteMine", 70, null, noRoom, 250)>> :
                  h \in {0, 250, 500} } }

RemoteRooms ==
    { [ baseRoom EXCEPT !.incubateFlagInRoom = inc, !.storage = st,
                       !.assignedFlags = fl ] :
      inc \in BOOLEAN, fl \in RemoteFlagSets,
      st \in {noStorage} \cup { storage(FALSE, 80000, 0, caps) : caps \in HaulerCapacities } }

InitRemote ==
    /\ room \in RemoteRooms
    /\ roles = defaultPatterns
    /\ creeps = Crew
    /\ maxPerTarget = [n \in TaskNames |-> 1]
    /\ targetedBy = [t \in TargetIds |-> {}]
    /\ calls = 0
    /\ last = NoCall
    /\ hauler = Idle
    /\ spawnOp = Idle
    /\ listing = <<>>
    /\ handling = [phase |-> "idle"]

NextRemote == HandleRemoteHaulers

SpecRemote == InitRemote /\ [][NextRemote]_vars

\* the hauling needed over the assigned remote-mine flags
HaulingNeeded ==
    SumSeq([ i \in 1..Len(room.assignedFlags) |->
               IF room.assignedFlags[i].group = "industry"
                  /\ room.assignedFlags[i].kind = "remoteMine"
               THEN room.assignedFlags[i].haulingNeeded ELSE 0 ])

\* the carry capacity of the haulers assigned to the storage
HaulingSupplied == SumSeq(room.storage.assigned.hauler)

\* C23: with a storage, handleRemoteHaulers returns a hauler directive
\* assigned to the storage with an unbounded repetition limit exactly when
\* the carry capacity of the haulers assigned to the storage is strictly
\* below 1.2 times the hauling needed of the assigned remote-mine flags;
\* otherwise, and without a storage, it returns nothing.
C23_RemoteHaulers ==
    Handled("handleRemoteHaulers") =>
        /\ ~room.storage.exists => handling.response = null
        /\ room.storage.exists =>
               /\ (handling.response # null) <=> (10 * HaulingSupplied < 12 * HaulingNeeded)
               /\ handling.response # null =>
                      /\ handling.response.kind = "creep"
                      /\ handling.response.role = "hauler"
                      /\ handling.response.assignment = room.storage.id
                      /\ handling.response.patternRepetitionLimit = Infinity

\* supply covers the hauling needed but not 1.2 times it: a hauler is ordered
C23_Witness ==
    /\ Handled("handleRemoteHaulers")
    /\ room.storage.exists
    /\ HaulingSupplied >= HaulingNeeded /\ HaulingNeeded > 0
    /\ handling.response # null
    /\ handling.response.role = "hauler"

\* supply equals 1.2 times the hauling needed: nothing
C23_WitnessMet ==
    /\ Handled("handleRemoteHaulers")
    /\ room.storage.exists
    /\ HaulingNeeded > 0 /\ 10 * HaulingSupplied = 12 * HaulingNeeded
    /\ handling.response = null

\* hauling is needed and there is no storage: nothing
C23_WitnessNoStorage ==
    /\ Handled("handleRemoteHaulers")
    /\ ~room.storage.exists
    /\ HaulingNeeded > 0
    /\ handling.response = null

\* ------------------------------------------------- the incubation's inputs
\* a claim-and-incubate flag on the room of that name
incubateFlagOn(id, len, fr) ==
    flag(id, "territory", "claimAndIncubate", len, null, fr, 0)

\* two owned rooms under incubation, the first nearer or farther than the
\* second, each with its miner or without and with workers of several body
\* lengths; a nearer room that is not owned, a flag without a room, and a
\* guard flag on an owned room
IncubationRooms ==
    { [ baseRoom EXCEPT !.incubateFlagInRoom = inc, !.assignedFlags =
          << incubateFlagOn("incB", 30, flagRoom("W3N1", TRUE, mb, bb)),
             incubateFlagOn("incC", 5, flagRoom("W4N1", FALSE, 0, <<>>)),
             incubateFlagOn("incA", la, flagRoom("W2N1", TRUE, ma, ba)),
             incubateFlagOn("incD", 1, noRoom),
             flag("guard1", "millitary", "guard", 2, null,
                  flagRoom("W5N1", TRUE, 0, <<>>), 0) >> ] :
      inc \in BOOLEAN, la \in {10, 50}, ma \in {0, 1}, mb \in {0, 1},
      ba \in { <<>>, <<90, 90, 90>>, <<90, 30, 90>>, <<30, 30, 30>> },
      bb \in { <<>>, <<90, 90, 90>>, <<30, 30, 30>> } }

InitIncubation ==
    /\ room \in IncubationRooms
    /\ roles = defaultPatterns
    /\ creeps = Crew
    /\ maxPerTarget = [n \in TaskNames |-> 1]
    /\ targetedBy = [t \in TargetIds |-> {}]
    /\ calls = 0
    /\ last = NoCall
    /\ hauler = Idle
    /\ spawnOp = Idle
    /\ listing = <<>>
    /\ handling = [phase |-> "idle"]

NextIncubation == HandleIncubationSpawnOperations

SpecIncubation == InitIncubation /\ [][NextIncubation]_vars

\* the claim-and-incubate flags whose room is seen and owned
Bootstrapped ==
    { i \in 1..Len(room.assignedFlags) :
        /\ room.assignedFlags[i].kind = "claimAndIncubate"
        /\ room.assignedFlags[i].room.exists
        /\ room.assignedFlags[i].room.my }

\* a source of the flag's room has fewer miners than minersPerSource
MinerMissing(f) ==
    \E i \in 1..Len(f.room.sources) :
        f.room.sources[i].assigned.miner < settings.minersPerSource

\* the workers of the flag's room with a body of full size
FullSizeWorkers(f) ==
    Cardinality({ i \in 1..Len(f.room.workerBodyLengths) :
                    f.room.workerBodyLengths[i]
                        >= Len(roles.worker.bodyPattern)
                               * settings.workerPatternRepetitionLimit })

\* the flag's room has its full-size workers, or the settings in effect
\* name no number of workers to send
WorkersSent(f) ==
    \/ "incubationWorkersToSend" \notin DOMAIN settings
    \/ FullSizeWorkers(f) >= settings.incubationWorkersToSend

\* the flags a call went through, in order
FlagsTried == [i \in 1..Len(handling.calls) |-> FlagOfId(handling.calls[i].op)]

IsDirectiveOf(role) ==
    /\ handling.response # null
    /\ handling.response.kind = "creep"
    /\ handling.response.role = role

\* what C24 shares with its amended form: only flags on owned rooms are gone
\* through, nearest first; a worker is returned only for a room with fewer
\* full-size workers than incubationWorkersToSend; every directive is marked
\* renewMe
IncubationBasics ==
    LET n == Len(FlagsTried)
    IN /\ \A i \in 1..n :
              \E b \in Bootstrapped : room.assignedFlags[b].id = FlagsTried[i].id
       /\ \A i \in 1..n : \A j \in 1..n :
              i < j => /\ FlagsTried[i].id # FlagsTried[j].id
                       /\ FlagsTried[i].pathLengthToAssignedRoomStorage
                              <= FlagsTried[j].pathLengthToAssignedRoomStorage
       /\ n > 0 =>
              \A b \in Bootstrapped :
                  room.assignedFlags[b].pathLengthToAssignedRoomStorage
                          < FlagsTried[n].pathLengthToAssignedRoomStorage
                      => \E j \in 1..n : FlagsTried[j].id = room.assignedFlags[b].id
       /\ handling.response # null =>
              /\ n > 0
              /\ IsDirectiveOf("miner") \/ IsDirectiveOf("worker")
              /\ handling.response.renewMe
              /\ handling.response.workRoom = FlagsTried[n].room.name
       /\ IsDirectiveOf("worker") =>
              /\ "incubationWorkersToSend" \in DOMAIN settings
              /\ FullSizeWorkers(FlagsTried[n]) < settings.incubationWorkersToSend
              /\ handling.response.assignment = FlagsTried[n].room.controllerId

\* C24 as stated: only claim-and-incubate flags on owned rooms are
\* considered, nearest first; a worker directive is returned only when no
\* miner is missing in any of the rooms being bootstrapped, and only while
\* the target has fewer than incubationWorkersToSend full-size workers; every
\* directive returned is marked renewMe.
C24_MinersFirstEverywhere ==
    Handled("handleIncubationSpawnOperations") =>
        /\ IncubationBasics
        /\ IsDirectiveOf("worker") =>
               \A b \in Bootstrapped : ~MinerMissing(room.assignedFlags[b])

\* C24, amended: only claim-and-incubate flags on owned rooms are considered,
\* nearest first, and each room is served in full before the next: a miner
\* is returned for the first room with a miner missing, a worker for the
\* first room with fewer than incubationWorkersToSend full-size workers, and
\* a worker only when no miner is missing in that room and in the nearer
\* ones (farther rooms may still lack theirs); every directive returned is
\* marked renewMe; under the incubating profile no worker is returned.
C24_MinersFirstPerRoom ==
    Handled("handleIncubationSpawnOperations") =>
        LET n == Len(FlagsTried)
        IN /\ IncubationBasics
           /\ \A i \in 1..(n - 1) :
                  ~MinerMissing(FlagsTried[i]) /\ WorkersSent(FlagsTried[i])
           /\ IsDirectiveOf("miner") => MinerMissing(FlagsTried[n])
           /\ IsDirectiveOf("worker") =>
                  /\ \A i \in 1..n : ~MinerMissing(FlagsTried[i])
                  /\ ~incubating
           /\ handling.response = null =>
                  /\ n = Cardinality(Bootstrapped)
                  /\ \A i \in 1..n :
                         ~MinerMissing(FlagsTried[i]) /\ WorkersSent(FlagsTried[i])

\* a worker is returned for the nearer room, which has its miner and one
\* full-size worker too few, after the flags on the room that is not owned
\* and on no room were left out
C24_Witness ==
    /\ Handled("handleIncubationSpawnOperations")
    /\ IsDirectiveOf("worker")
    /\ handling.response.renewMe
    /\ Len(FlagsTried) = 2
    /\ FlagsTried[1].id = "incB" /\ FlagsTried[2].id = "incA"
    /\ FullSizeWorkers(FlagsTried[2]) = 2

\* a worker is returned for the nearer room while the farther room lacks its
\* miner
C24_WitnessFartherMiner ==
    /\ Handled("handleIncubationSpawnOperations")
    /\ IsDirectiveOf("worker")
    /\ Len(FlagsTried) = 1
    /\ \E b \in Bootstrapped : MinerMissing(room.assignedFlags[b])

\* the fields the handlers and calculators read from this.settings
ParametersRead ==
    { "fortifyLevel", "workerPatternRepetitionLimit", "maxWorkersPerRoom",
      "incubationWorkersToSend", "supplierPatternRepetitionLimit", "minersPerSource",
      "storageBuffer", "maxAssistLifetimePercentage" }

\* the roles a storage buffer is kept for
BufferedRoles == {"linker", "worker", "upgrader", "default"}

\* the settings in effect are one profile whole: the normal one outside
\* incubation, the incubating one during it
SettingsWholesale ==
    /\ ~incubating => settings = normalSettings
    /\ incubating => settings = incubatingSettings
    /\ DOMAIN settings \in {DOMAIN normalSettings, DOMAIN incubatingSettings}

\* C25: when a handler reads the settings, they are wholesale the normal
\* profile if the room is not incubating and the incubating profile if it is,
\* and every parameter read from them, incubationWorkersToSend,
\* maxAssistLifetimePercentage and the storageBuffer entries included, is
\* defined in the profile in effect.
C25_ProfileComplete ==
    Handled("handleIncubationSpawnOperations") =>
        /\ SettingsWholesale
        /\ ParametersRead \subseteq DOMAIN settings
        /\ BufferedRoles \subseteq DOMAIN settings.storageBuffer

\* the part of C25 the code has: the profile is swapped whole, and outside
\* incubation every parameter read is defined
ProfileCompleteOutsideIncubation ==
    /\ SettingsWholesale
    /\ ~incubating =>
           /\ ParametersRead \subseteq DOMAIN settings
           /\ BufferedRoles \subseteq DOMAIN settings.storageBuffer

\* an incubating room goes through a target that has its miner and no
\* worker, reads a number of workers to send that its settings do not
\* define, and sends none
IncubatingSendsNoWorker ==
    /\ Handled("handleIncubationSpawnOperations")
    /\ incubating
    /\ "incubationWorkersToSend" \notin DOMAIN settings
    /\ \E i \in 1..Len(FlagsTried) :
           ~MinerMissing(FlagsTried[i]) /\ FullSizeWorkers(FlagsTried[i]) = 0
    /\ handling.response = null

\* the dropped energy the catalog lists for pickup
PickupTargets ==
    { room.droppedEnergy[i].id : i \in { j \in 1..Len(room.droppedEnergy) :
                                            room.droppedEnergy[j].amount > 100 } }

\* C26: the pickup category has no allowed role, so assignTask never commits
\* a creep to a pickup item, whatever its role, load and body and even with
\* dropped energy above the minimum; the call fails on nothing, and a creep
\* with an open item in a category it may work in is committed to it.
C26_PickupNeverAssigned ==
    /\ \A d \in PickupTargets : targetedBy[d] = {}
    /\ Called =>
           /\ \A k \in 1..Len(last.applicable) : last.applicable[k] # "pickup"
           /\ last.ret # "pickup"
           /\ last.ret \in {"", "recharge", "supply", "repair", "build", "fortify",
                             "upgrade"}
           /\ Committed => last.task.target.id \notin PickupTargets
           /\ OpenRanks(last.creep, last.before) # {} => Committed

\* dropped energy above the minimum lies in the room, and a hauler with
\* carry parts and room for it is sent to collect from a container instead
C26_Witness ==
    /\ Called
    /\ PickupTargets # {}
    /\ creeps[last.creep].role = "hauler"
    /\ assignmentConditions("pickup", creeps[last.creep])
    /\ last.ret = "recharge"
    /\ InCategory(last.task, "collect")

\* no domestic handler has a directive on the snapshot of the run
NoDomesticDirective ==
    \A i \in 1..Len(prioritizedDomesticOperations) :
        domesticOperation(prioritizedDomesticOperations[i], spawnOp.haulers) = null

\* a creep marked renewMe with fewer than 500 ticks to live stands within
\* range 1 of the spawn
RenewalDue ==
    \E i \in 1..Len(room.myCreeps) :
        /\ room.myCreeps[i].renewMe
        /\ room.myCreeps[i].ticksToLive < 500
        /\ room.myCreeps[i].rangeToSpawn <= 1

\* the core stage returned the marker and the run stopped there: no handler
\* of the incubation, assigned and inferred stages was called, and
\* createCreep was called once
RenewalEndsRun ==
    /\ StagesRun = <<"handleCoreSpawnOperations">>
    /\ \A k \in 1..Len(spawnOp.calls) :
           spawnOp.calls[k].stage \in {"handleSpawnOperations", "handleCoreSpawnOperations"}
    /\ spawnOp.created = <<renewing>>
    /\ spawnOp.ret # null
    /\ spawnOp.ret.kind = "createCreep"

\* C28 as stated: when no domestic handler yields a directive and a creep
\* marked renewMe with fewer than 500 ticks to live is within range 1 of the
\* spawn, the core stage returns the renewal marker, the later stages are not
\* evaluated, and the marker is what is passed to createCreep.
C28_MarkerPassedOn ==
    (SpawnDone /\ hasSpawn /\ NoDomesticDirective /\ RenewalDue) =>
        /\ RenewalEndsRun
        /\ \E k \in 1..Len(spawnOp.ret.arguments) : spawnOp.ret.arguments[k] = renewing

\* C28, amended: under the same conditions the core stage returns the
\* renewal marker, the later stages are not evaluated, and createCreep is
\* called with the marker's body, name and memory, which a string does not
\* have: the three arguments are undefined.
C28_MarkerEndsRun ==
    (SpawnDone /\ hasSpawn /\ NoDomesticDirective /\ RenewalDue) =>
        /\ RenewalEndsRun
        /\ spawnOp.ret.arguments = <<undefined, undefined, undefined>>

\* the marker ended a run in which the incubation, assigned and inferred
\* stages would each have yielded a directive
C28_Witness ==
    /\ SpawnDone /\ hasSpawn /\ NoDomesticDirective /\ RenewalDue
    /\ spawnOp.created = <<renewing>>
    /\ Responds("handleIncubationSpawnOperations")
    /\ Responds("handleAssignedSpawnOperations")
    /\ Responds("handleInferredSpawnOperations")

\* creeps stand about that miss one condition of the search each: no marker,
\* and the later stages are evaluated
C28_WitnessNotDue ==
    /\ SpawnDone /\ hasSpawn /\ NoDomesticDirective /\ ~RenewalDue
    /\ Len(room.myCreeps) = 3
    /\ Len(StagesRun) > 1

\* ---------------------------------------------------- repeated cycles
\* flags whose action handlers return nothing: none, a guard and a remote
\* mine, and rooms under incubation with their miner or without, with no
\* worker yet or two
CycleFlagSets ==
    { <<>>,
      <<guardFlag(null), mineFlag(null, 500)>>,
      <<incubateFlag("inc1", 40, 0, <<>>), mineFlag(null, 500)>>,
      <<incubateFlag("inc1", 40, 1, <<48, 48>>)>> }

CycleRooms ==
    { [ catalog(DefaultSupplySide, DefaultWorkSide) EXCEPT
          !.incubateFlagInRoom = inc,
          !.controller.assigned =
              [supplier |-> sup, worker |-> 0, upgrader |-> 0] ] @@
      [ spawns |-> sp, storage |-> st, terminal |-> tm.terminal, labs |-> tm.labs,
        sources |-> <<source("src1", 20, FALSE, 1, 1), source("src2", 30, FALSE, min, 0)>>,
        storageUnits |-> 0, energyCapacityAvailable |-> 1300,
        assignedFlags |-> fs, myCreeps |-> renew ] :
      inc \in BOOLEAN, sup \in {0},
      sp \in { <<spawn(FALSE)>> },
      st \in { noStorage, storage(TRUE, 80000, 0, <<100>>) },
      tm \in { [terminal |-> terminal(0), labs |-> 1] },
      min \in {0, 1},
      fs \in CycleFlagSets,
      renew \in { <<>>, <<nearby(TRUE, 499, 1)>> } }

InitCycles ==
    /\ room \in CycleRooms
    /\ roles = defaultPatterns
    /\ creeps = Crew
    /\ maxPerTarget = [n \in TaskNames |-> 1]
    /\ targetedBy = [t \in TargetIds |-> {}]
    /\ calls = 0
    /\ last = NoCall
    /\ hauler = Idle
    /\ spawnOp = [phase |-> "idle", tick |-> 0]
    /\ listing = <<>>
    /\ handling = Idle

NextCycles == Cycle

\* a cycle is run in every control cycle: the cycles never stop
SpecCycles == InitCycles /\ [][NextCycles]_vars /\ WF_vars(Cycle)

\* the last cycle returned nothing
Quiet == spawnOp.phase = "done" /\ spawnOp.ret = null

\* the last cycle asked for no creep: it returned nothing, or what createCreep
\* gives for the renewal marker
NothingBuilt ==
    /\ spawnOp.phase = "done"
    /\ \A i \in 1..Len(spawnOp.created) : spawnOp.created[i].kind # "creep"

\* C27: when every directive returned is actuated, the flags' action
\* handlers return nothing and the room is otherwise unchanged, repeated
\* cycles of handleSpawnOperations reach a cycle that asks for no creep, and
\* no later cycle asks for one either: production stops.
C27_ReachesEquilibrium == <>[]NothingBuilt

\* the cycles of a room with no claim-and-incubate flag on an owned room do
\* reach a cycle that asks for no creep, and stay there
EquilibriumWithoutBootstrap == (Bootstrapped = {}) => <>[]NothingBuilt

\* no flag of the room is a claim-and-incubate flag on an owned room, and no
\* creep beside the spawn is due for renewal
NoBootstrapNoRenewal == Bootstrapped = {} /\ ~RenewalDue

\* without renewal due either, the cycles end up returning nothing
QuietWithoutBootstrapOrRenewal == NoBootstrapNoRenewal => <>[]Quiet

\* while a creep beside the spawn stays due for renewal, no cycle returns
\* nothing: the marker is handed to createCreep in each of them
RenewalNeverQuiet == [](RenewalDue /\ spawnOp.phase = "done" => ~Quiet)

\* workers sent to a room under incubation beyond incubationWorkersToSend,
\* none of them of full size
WorkersSentBeyondCount ==
    \E b \in Bootstrapped :
        /\ Len(room.assignedFlags[b].room.workerBodyLengths)
               > normalSettings.incubationWorkersToSend
        /\ FullSizeWorkers(room.assignedFlags[b]) = 0

====
